---- MODULE Spec2Model ----
(***************************************************************************)
(* A model of the extraction / normalization / serialization pipeline of   *)
(* amlib-export (apple-music-extract).                                     *)
(*                                                                         *)
(* JavaScript strings are modelled as sequences of one-character strings,  *)
(* so that trimming, case folding, substring search and CSV quoting are    *)
(* computed the way the code computes them.                                *)
(*                                                                         *)
(* Specifications:                                                         *)
(*   Spec      runAppleScript: one child process, its line / stderr /      *)
(*             close / error events and the promise they settle            *)
(*   SpecNorm  createNormalizer: add and getUniqueValues                   *)
(*   SpecEsc   escapeField over values                                     *)
(*   SpecCsv   generateMultiColumnCSV over row lists                       *)
(*   SpecErr   detectErrorType over diagnostic texts                       *)
(*   SpecParse the |||-separated line parser of extractTracks and          *)
(*             extractPlaylistTracks                                       *)
(*   SpecTracks normalizeArtistsFromTracks over track lists                *)
(*   SpecColumn generateSingleColumnCSV over value lists                   *)
(*   SpecCli   one command line run: main, a handler and its child         *)
(***************************************************************************)
EXTENDS Integers, Sequences, FiniteSets, TLC

VARIABLES
    \* ---- runAppleScript (src/src/csv-writer.js:194-255)
    limit,          \* options.limit; 0 models an absent (falsy) limit
    onLine,         \* TRUE iff options.onLine was supplied
    lines,          \* const lines = []
    stderr,         \* let stderr = ''
    lineCount,      \* let lineCount = 0
    limitReached,   \* let limitReached = false
    result,         \* the value the promise is settled with, if any
    proc,           \* the child: "running", "failed" (could not start), "closed"
    killed,         \* proc.kill('SIGTERM') has been called
    emitted,        \* history: every line the readline interface delivered
    calls,          \* history: the onLine invocations, <<line, index>>
    callCtx,        \* history: what each onLine invocation found done
    closeCode,      \* history: the code the close event carried
    errMsg,         \* history: the message of the error event
    nChunks,        \* history: the number of stderr data events
    \* ---- detectErrorType (src/src/csv-writer.js:128-153)
    diag,           \* a diagnostic text
    kind,           \* detectErrorType(diag)
    nFrags,         \* history: the number of fragments diag was built from
    \* ---- createNormalizer (src/src/normalizer.js:8-61)
    noTrim,         \* options.noTrim
    sort,           \* options.sort
    seen,           \* const seen = new Map(): <<[key, value], ...>> in insertion order
    added,          \* history: the values passed to add, in call order
    ret,            \* the value the last add returned
    out,            \* the array the last getUniqueValues returned
    last,           \* the last operation: "new", "add" or "get"
    \* ---- the CSV writer (src/unnamed/part_002)
    rows,           \* the row objects handed to generateMultiColumnCSV
    csv,            \* the content generateMultiColumnCSV returned for rows
    field,          \* the value handed to escapeField
    escaped,        \* the string escapeField returned for field
    columnValues,   \* the values handed to generateSingleColumnCSV
    columnHeader,   \* the header handed to generateSingleColumnCSV
    column,         \* the content generateSingleColumnCSV returned
    generated,      \* TRUE once generateSingleColumnCSV has returned
    renderHeaders,  \* the column names a handler hands to a generator
    renderRows,     \* the row objects it hands over
    rendered,       \* the content the generator returned
    renderer,       \* the generator called, "none" before
    \* ---- the record parser (src/src/csv-writer.js:281-289, 316-323)
    rawLine,        \* one line of the child's output
    nPieces,        \* history: the number of pieces rawLine was built from
    record,         \* the object the line was mapped to
    parsedAs,       \* "none", "track" or "playlistTrack"
    \* ---- normalizeArtistsFromTracks (src/src/normalizer.js:149-167)
    tracks,         \* the track objects
    options,        \* { fallbackAlbumArtist, noTrim, sort }
    uniqueArtists,  \* the array the function returned
    returned,       \* TRUE once the function has returned
    uniqueValues,   \* the array normalizeAlbums or normalizeTracks returned
    normalizerName, \* which of the two was called, "none" before
    \* ---- the command line run (src/src/normalizer.js:458-701)
    cliOptions,     \* what parseArgs returned: { type, strict, out, limit, help }
    cliPhase,       \* "start", "awaiting" (the handler awaits the extraction), "exited"
    spawned,        \* history: the number of runAppleScript calls, one spawn each
    script,         \* the extract function the handler called, "none" before
    reported,       \* the message printed on the way out, "none" before
    wrote,          \* where the output went: "none", "file" or "stdout"
    writeThrew,     \* history: writeFileSync threw
    exitStatus,     \* the status handed to process.exit, NoExit before
    extraction,     \* what the extract function returned to the handler
    output,         \* the content written to the file or to stdout
    chalkColors     \* history: chalk colored the content for stdout

runnerVars == <<limit, onLine, lines, stderr, lineCount, limitReached, result,
                proc, killed, emitted, calls, callCtx, closeCode, errMsg, nChunks>>
errVars == <<diag, kind, nFrags>>
normVars == <<noTrim, sort, seen, added, ret, out, last>>
renderVars == <<renderHeaders, renderRows, rendered, renderer>>
csvVars == <<rows, csv, field, escaped, columnValues, columnHeader, column, generated,
             renderVars>>
parseVars == <<rawLine, nPieces, record, parsedAs>>
trackVars == <<tracks, options, uniqueArtists, returned, uniqueValues, normalizerName>>
cliVars == <<cliOptions, cliPhase, spawned, script, reported, wrote, writeThrew, exitStatus,
             extraction, output, chalkColors>>
pipelineVars == <<parseVars, trackVars, cliVars>>
vars == <<runnerVars, errVars, normVars, csvVars, pipelineVars>>

(***************************************************************************)
(* Bounds of the model                                                     *)
(***************************************************************************)
MaxLines == 3       \* line events delivered by one child
MaxLimit == 2       \* largest options.limit tried
MaxChunks == 2      \* stderr data events of one child
MaxFrags == 2       \* fragments concatenated into one diagnostic text
MaxAdds == 3        \* add calls on one normalizer
MaxRows == 2        \* row objects in one CSV
MaxFieldLen == 3    \* characters of a value handed to escapeField
MaxPieces == 5      \* pieces concatenated into one output line
MaxTracks == 2      \* track objects handed to normalizeArtistsFromTracks
MaxValues == 2      \* values handed to generateSingleColumnCSV
MaxRenderRows == 2  \* rows handed to a generator by a handler

(***************************************************************************)
(* Strings                                                                 *)
(***************************************************************************)
Upper == <<"A","B","C","D","E","F","G","H","I","J","K","L","M",
           "N","O","P","Q","R","S","T","U","V","W","X","Y","Z">>
Lower == <<"a","b","c","d","e","f","g","h","i","j","k","l","m",
           "n","o","p","q","r","s","t","u","v","w","x","y","z">>

IsUpper(c) == \E i \in 1..Len(Upper) : Upper[i] = c
IsLower(c) == \E i \in 1..Len(Lower) : Lower[i] = c
LowerChar(c) == IF IsUpper(c) THEN Lower[CHOOSE i \in 1..Len(Upper) : Upper[i] = c] ELSE c
UpperChar(c) == IF IsLower(c) THEN Upper[CHOOSE i \in 1..Len(Lower) : Lower[i] = c] ELSE c

\* String.prototype.toLowerCase
toLowerCase(s) == [i \in 1..Len(s) |-> LowerChar(s[i])]

\* the white space String.prototype.trim strips (the part of it the model uses)
IsWhiteSpace(c) == c \in {" ", "\t", "\n", "\r"}

RECURSIVE trimStart(_)
trimStart(s) == IF s # <<>> /\ IsWhiteSpace(Head(s)) THEN trimStart(Tail(s)) ELSE s

RECURSIVE trimEnd(_)
trimEnd(s) ==
    IF s # <<>> /\ IsWhiteSpace(s[Len(s)]) THEN trimEnd(SubSeq(s, 1, Len(s) - 1)) ELSE s

\* String.prototype.trim
trim(s) == trimEnd(trimStart(s))

\* String.prototype.includes
includes(s, p) == \E i \in 0..(Len(s) - Len(p)) : SubSeq(s, i + 1, i + Len(p)) = p

(***************************************************************************)
(* ExitCodes                                                               *)
(***************************************************************************)
SUCCESS == 0
MUSIC_UNAVAILABLE == 2
PERMISSION_DENIED == 3
APPLESCRIPT_ERROR == 4
FILE_WRITE_ERROR == 5

(***************************************************************************)
(* detectErrorType                                                         *)
(***************************************************************************)
PermissionPatterns == {
    <<"n","o","t"," ","a","u","t","h","o","r","i","z","e","d">>,
    <<"a","s","s","i","s","t","i","v","e"," ","a","c","c","e","s","s">>,
    <<"u","s","e","r"," ","c","a","n","c","e","l","e","d">>,
    <<"e","r","r","a","e","v","e","n","t","n","o","t","p","e","r","m","i","t","t","e","d">>,
    <<"-","1","7","4","3">> }

UnavailablePatterns == {
    <<"a","p","p","l","i","c","a","t","i","o","n"," ","i","s","n","'","t"," ","r","u","n","n","i","n","g">>,
    <<"a","p","p","l","i","c","a","t","i","o","n"," ","\"","m","u","s","i","c","\""," ","c","a","n","'","t"," ","b","e"," ","f","o","u","n","d">>,
    <<"c","o","n","n","e","c","t","i","o","n"," ","i","s"," ","i","n","v","a","l","i","d">>,
    <<"c","o","u","l","d","n","'","t"," ","l","a","u","n","c","h">> }

\* mutant: the shorter rule set of the single-file build (amlib-export-artists.js),
\* three permission substrings and two availability substrings
detectErrorTypeShort(text) ==
    LET lower == toLowerCase(text) IN
    IF \/ includes(lower, <<"n","o","t"," ","a","u","t","h","o","r","i","z","e","d">>)
       \/ includes(lower, <<"-","1","7","4","3">>)
       \/ includes(lower, <<"u","s","e","r"," ","c","a","n","c","e","l","e","d">>)
    THEN PERMISSION_DENIED
    ELSE IF \/ includes(lower, <<"a","p","p","l","i","c","a","t","i","o","n"," ","i","s","n","'","t"," ","r","u","n","n","i","n","g">>)
            \/ includes(lower, <<"c","a","n","'","t"," ","b","e"," ","f","o","u","n","d">>)
    THEN MUSIC_UNAVAILABLE
    ELSE APPLESCRIPT_ERROR

\* mutant: the two rules in the opposite order, availability tested first
detectErrorTypeAvailabilityFirst(text) ==
    LET lowerStderr == toLowerCase(text) IN
    IF \E p \in UnavailablePatterns : includes(lowerStderr, p)
    THEN MUSIC_UNAVAILABLE
    ELSE IF \E p \in PermissionPatterns : includes(lowerStderr, p)
    THEN PERMISSION_DENIED
    ELSE APPLESCRIPT_ERROR

detectErrorType(text) ==
    LET lowerStderr == toLowerCase(text) IN
    IF \E p \in PermissionPatterns : includes(lowerStderr, p)
    THEN PERMISSION_DENIED
    ELSE IF \E p \in UnavailablePatterns : includes(lowerStderr, p)
    THEN MUSIC_UNAVAILABLE
    ELSE APPLESCRIPT_ERROR

(***************************************************************************)
(* createNormalizer                                                        *)
(***************************************************************************)
\* String.prototype.toLocaleLowerCase
toLocaleLowerCase(s) == [i \in 1..Len(s) |-> LowerChar(s[i])]

\* seen.has(key)
has(map, key) == \E i \in 1..Len(map) : map[i].key = key

\* seen.set(key, value): a new key goes last, a known key keeps its place
set(map, key, value) ==
    IF has(map, key)
    THEN [i \in 1..Len(map) |-> IF map[i].key = key THEN [key |-> key, value |-> value]
                                                    ELSE map[i]]
    ELSE Append(map, [key |-> key, value |-> value])

\* [...seen.values()]
values(map) == [i \in 1..Len(map) |-> map[i].value]

\* a.localeCompare(b) under the default (root) collation: the strings are
\* compared on their primary weights (letters without their case, the space
\* before every letter), and strings equal there on their case, lower case
\* first.  -1, 0 or 1.
PrimaryWeight(c) ==
    IF c = " " THEN 0
    ELSE IF IsLower(LowerChar(c))
    THEN CHOOSE i \in 1..Len(Lower) : Lower[i] = LowerChar(c)
    ELSE Len(Lower) + 1
TertiaryWeight(c) == IF IsUpper(c) THEN 1 ELSE 0

RECURSIVE CompareWeights(_, _)
CompareWeights(wa, wb) ==
    IF wa = <<>> /\ wb = <<>> THEN 0
    ELSE IF wa = <<>> THEN -1
    ELSE IF wb = <<>> THEN 1
    ELSE IF Head(wa) < Head(wb) THEN -1
    ELSE IF Head(wa) > Head(wb) THEN 1
    ELSE CompareWeights(Tail(wa), Tail(wb))

localeCompare(a, b) ==
    LET primary == CompareWeights([i \in 1..Len(a) |-> PrimaryWeight(a[i])],
                                  [i \in 1..Len(b) |-> PrimaryWeight(b[i])])
    IN IF primary # 0 THEN primary
       ELSE CompareWeights([i \in 1..Len(a) |-> TertiaryWeight(a[i])],
                           [i \in 1..Len(b) |-> TertiaryWeight(b[i])])

\* values.sort((a, b) => a.localeCompare(b)): a stable sort, here by insertion
RECURSIVE InsertSorted(_, _)
InsertSorted(sorted, v) ==
    IF sorted = <<>> THEN <<v>>
    ELSE IF localeCompare(v, Head(sorted)) < 0 THEN <<v>> \o sorted
    ELSE <<Head(sorted)>> \o InsertSorted(Tail(sorted), v)

RECURSIVE sortValues(_)
sortValues(vs) ==
    IF vs = <<>> THEN <<>>
    ELSE InsertSorted(sortValues(SubSeq(vs, 1, Len(vs) - 1)), vs[Len(vs)])

\* mutant: a known key has its display value overwritten (last occurrence
\* wins) and the call reports a new value
addOverwrite(value) ==
    LET v == IF ~noTrim THEN trim(value) ELSE value IN
    IF v = <<>>
    THEN seen' = seen /\ ret' = FALSE
    ELSE seen' = set(seen, toLocaleLowerCase(v), v) /\ ret' = TRUE

\* add(value)
add(value) ==
    LET v == IF ~noTrim THEN trim(value) ELSE value IN
    IF v = <<>>
    THEN seen' = seen /\ ret' = FALSE
    ELSE LET key == toLocaleLowerCase(v) IN
         IF ~has(seen, key)
         THEN seen' = set(seen, key, v) /\ ret' = TRUE
         ELSE seen' = seen /\ ret' = FALSE

\* get count()
count == Len(seen)

\* mutant: the sort compares the strings code unit by code unit (the default
\* Array.prototype.sort order), capitals before small letters, and runs
\* whether or not sort was asked for
CodeUnit(c) == IF c = " " THEN 0 ELSE IF IsUpper(c) THEN 1 ELSE 2
RECURSIVE InsertByCodeUnit(_, _)
InsertByCodeUnit(sorted, v) ==
    IF sorted = <<>> THEN <<v>>
    ELSE IF CompareWeights([i \in 1..Len(v) |-> CodeUnit(v[i])],
                           [i \in 1..Len(Head(sorted)) |-> CodeUnit(Head(sorted)[i])]) < 0
    THEN <<v>> \o sorted
    ELSE <<Head(sorted)>> \o InsertByCodeUnit(Tail(sorted), v)
RECURSIVE sortByCodeUnit(_)
sortByCodeUnit(vs) ==
    IF vs = <<>> THEN <<>>
    ELSE InsertByCodeUnit(sortByCodeUnit(SubSeq(vs, 1, Len(vs) - 1)), vs[Len(vs)])
getUniqueValuesCodeUnit == sortByCodeUnit(values(seen))

\* getUniqueValues()
getUniqueValues == IF sort THEN sortValues(values(seen)) ELSE values(seen)

(***************************************************************************)
(* normalizeArtists, normalizeArtistsFromTracks: a normalizer of their own *)
(***************************************************************************)
\* normalizer.add(value) on the map of a normalizer made with noTrim = nt:
\* the map after the call
addTo(map, value, nt) ==
    LET v == IF ~nt THEN trim(value) ELSE value IN
    IF v = <<>> THEN map
    ELSE LET key == toLocaleLowerCase(v) IN
         IF ~has(map, key) THEN set(map, key, v) ELSE map

\* normalizer.getUniqueValues() on the map of a normalizer made with sort = srt
uniqueValuesOf(map, srt) == IF srt THEN sortValues(values(map)) ELSE values(map)

\* for (const artist of rawArtists) normalizer.add(artist)
RECURSIVE addAll(_, _, _)
addAll(map, rawArtists, nt) ==
    IF rawArtists = <<>> THEN map
    ELSE addAll(addTo(map, Head(rawArtists), nt), Tail(rawArtists), nt)

\* Array.prototype.reverse
reverse(vs) == [i \in 1..Len(vs) |-> vs[Len(vs) + 1 - i]]

\* mutant: the unique values handed back last-seen first
normalizeArtistsReversed(rawArtists, nt, srt) ==
    reverse(uniqueValuesOf(addAll(<<>>, rawArtists, nt), srt))

\* normalizeArtists(rawArtists, { noTrim: nt, sort: srt })
normalizeArtists(rawArtists, nt, srt) == uniqueValuesOf(addAll(<<>>, rawArtists, nt), srt)

\* the loop of normalizeArtistsFromTracks over the remaining tracks
RECURSIVE addTracks(_, _, _, _)
addTracks(map, ts, fb, nt) ==
    IF ts = <<>> THEN map
    ELSE LET track == Head(ts)
             artist == IF fb /\ (track.artist = <<>> \/ trim(track.artist) = <<>>)
                       THEN track.albumArtist
                       ELSE track.artist
         IN addTracks(IF artist # <<>> THEN addTo(map, artist, nt) ELSE map,
                      Tail(ts), fb, nt)

\* normalizeArtistsFromTracks(tracks, opts)
normalizeArtistsFromTracks(ts, opts) ==
    uniqueValuesOf(addTracks(<<>>, ts, opts.fallbackAlbumArtist, opts.noTrim), opts.sort)

(***************************************************************************)
(* The CSV writer                                                          *)
(*                                                                         *)
(* A JavaScript value is a record: a string carries its characters, null   *)
(* and undefined carry nothing.                                            *)
(***************************************************************************)
Null == [type |-> "null"]
Undefined == [type |-> "undefined"]
Str(s) == [type |-> "string", s |-> s]

DQUOTE == "\""

\* str.replace(/"/g, '""')
RECURSIVE doubleQuotes(_)
doubleQuotes(s) ==
    IF s = <<>> THEN <<>>
    ELSE IF Head(s) = DQUOTE THEN <<DQUOTE, DQUOTE>> \o doubleQuotes(Tail(s))
    ELSE <<Head(s)>> \o doubleQuotes(Tail(s))

\* /[",\n\r]/.test(str)
needsEscaping(s) == \E i \in 1..Len(s) : s[i] \in {DQUOTE, ",", "\n", "\r"}

\* mutant: the character class without the carriage return, /[",\n]/
escapeFieldNoCR(value) ==
    IF value.type \in {"null", "undefined"} THEN <<>>
    ELSE IF \E i \in 1..Len(value.s) : value.s[i] \in {DQUOTE, ",", "\n"}
    THEN <<DQUOTE>> \o doubleQuotes(value.s) \o <<DQUOTE>>
    ELSE value.s

\* escapeField(value)
escapeField(value) ==
    IF value.type \in {"null", "undefined"} THEN <<>>
    ELSE LET str == value.s IN
         IF needsEscaping(str)
         THEN <<DQUOTE>> \o doubleQuotes(str) \o <<DQUOTE>>
         ELSE str

\* Array.prototype.join
RECURSIVE join(_, _)
join(strs, sep) ==
    IF strs = <<>> THEN <<>>
    ELSE IF Len(strs) = 1 THEN strs[1]
    ELSE strs[1] \o sep \o join(Tail(strs), sep)

\* String.prototype.split with a one-character separator
RECURSIVE split(_, _)
split(s, sep) ==
    IF \E i \in 1..Len(s) : s[i] = sep
    THEN LET i == CHOOSE k \in 1..Len(s) : s[k] = sep /\ \A j \in 1..(k - 1) : s[j] # sep
         IN <<SubSeq(s, 1, i - 1)>> \o split(SubSeq(s, i + 1, Len(s)), sep)
    ELSE <<s>>

\* capitalize(str)
capitalize(str) == IF str = <<>> THEN str ELSE <<UpperChar(Head(str))>> \o Tail(str)

\* mutant: the header written as it is, as the earlier generators did
formatHeaderRaw(header) == header

\* formatHeader(header)
formatHeader(header) ==
    LET words == split(header, "_") IN
    join([i \in 1..Len(words) |-> capitalize(words[i])], <<" ">>)

\* row[header]
Get(row, header) == IF header \in DOMAIN row THEN row[header] ELSE Undefined

\* mutant: the data lines alone, as generateSingleColumnData gives them
generateSingleColumnCSVDataOnly(vs, header) ==
    LET rs == [i \in 1..Len(vs) |-> escapeField(Str(vs[i]))] IN
    join(rs, <<"\n">>) \o <<"\n">>

\* generateSingleColumnCSV(values, header)
generateSingleColumnCSV(vs, header) ==
    LET rs == [i \in 1..Len(vs) |-> escapeField(Str(vs[i]))]
        formattedHeader == formatHeader(header)
        ls == <<formattedHeader>> \o rs
    IN join(ls, <<"\n">>) \o <<"\n">>

\* mutant: the fields joined as they are, without escapeField
generateMultiColumnCSVRaw(rs, headers) ==
    LET headerLine == join([i \in 1..Len(headers) |-> formatHeader(headers[i])], <<",">>)
        dataLines == [r \in 1..Len(rs) |->
                        join([i \in 1..Len(headers) |->
                                 LET v == Get(rs[r], headers[i])
                                 IN IF v.type = "string" THEN v.s ELSE <<>>], <<",">>)]
    IN join(<<headerLine>> \o dataLines, <<"\n">>) \o <<"\n">>

\* generateMultiColumnCSV(rows, headers)
generateMultiColumnCSV(rs, headers) ==
    LET headerLine == join([i \in 1..Len(headers) |->
                               escapeField(Str(formatHeader(headers[i])))], <<",">>)
        dataLines == [r \in 1..Len(rs) |->
                        join([i \in 1..Len(headers) |->
                                 escapeField(Get(rs[r], headers[i]))], <<",">>)]
    IN join(<<headerLine>> \o dataLines, <<"\n">>) \o <<"\n">>

(***************************************************************************)
(* extractTracks / extractPlaylistTracks: one output line to one object    *)
(***************************************************************************)
\* the separator the AppleScripts put between the fields of a line
Sep == <<"|","|","|">>

\* String.prototype.split with a separator string: the separators are found
\* from the left and do not overlap
RECURSIVE splitString(_, _)
splitString(s, sep) ==
    LET at(i) == SubSeq(s, i, i + Len(sep) - 1) = sep
        found == {i \in 1..(Len(s) - Len(sep) + 1) : at(i)}
    IN IF found = {} THEN <<s>>
       ELSE LET i == CHOOSE k \in found : \A j \in found : k <= j
            IN <<SubSeq(s, 1, i - 1)>>
                   \o splitString(SubSeq(s, i + Len(sep), Len(s)), sep)

\* const [a, b, ...] = array: the i-th element, undefined past the end
Destructure(array, i) == IF i <= Len(array) THEN Str(array[i]) ELSE Undefined

\* value || '': the empty string for undefined and for the empty string
OrEmpty(value) == IF value.type = "string" /\ value.s # <<>> THEN value.s ELSE <<>>

\* an object with no property
NoRecord == [name \in {} |-> <<>>]

\* mutant: the line split at every single bar
parseTrackLineSingleBar(line) ==
    LET parts == split(line, "|") IN
    [title |-> OrEmpty(Destructure(parts, 1)),
     artist |-> OrEmpty(Destructure(parts, 2)),
     albumArtist |-> OrEmpty(Destructure(parts, 3)),
     album |-> OrEmpty(Destructure(parts, 4))]

\* extractTracks: line => { const [title, artist, albumArtist, album] = ... }
parseTrackLine(line) ==
    LET parts == splitString(line, Sep) IN
    [title |-> OrEmpty(Destructure(parts, 1)),
     artist |-> OrEmpty(Destructure(parts, 2)),
     albumArtist |-> OrEmpty(Destructure(parts, 3)),
     album |-> OrEmpty(Destructure(parts, 4))]

\* extractPlaylistTracks: line => { const [playlist, track, artist] = ... }
parsePlaylistTrackLine(line) ==
    LET parts == splitString(line, Sep) IN
    [playlist |-> OrEmpty(Destructure(parts, 1)),
     track |-> OrEmpty(Destructure(parts, 2)),
     artist |-> OrEmpty(Destructure(parts, 3))]

\* generateSingleColumnData(values)
generateSingleColumnData(vs) ==
    LET rs == [i \in 1..Len(vs) |-> escapeField(Str(vs[i]))] IN
    join(rs, <<"\n">>) \o <<"\n">>

\* generateMultiColumnData(rows, headers)
generateMultiColumnData(rs, headers) ==
    LET dataLines == [r \in 1..Len(rs) |->
                        join([i \in 1..Len(headers) |->
                                 escapeField(Get(rs[r], headers[i]))], <<",">>)]
    IN join(dataLines, <<"\n">>) \o <<"\n">>

(***************************************************************************)
(* The colorized terminal output.  chalk either wraps a non-empty text in  *)
(* an opening and a closing escape sequence (one element each here) or,    *)
(* on a terminal without colors, gives it back as it is.                   *)
(***************************************************************************)
AnsiOpen ==
    [artist |-> "ESC[38;2;201;160;220m", album |-> "ESC[38;2;240;198;116m",
     track |-> "ESC[38;2;138;190;183m", playlist |-> "ESC[38;2;129;162;190m",
     title |-> "ESC[38;2;138;190;183m", separator |-> "ESC[2m", white |-> "ESC[37m"]
AnsiClose == [style \in DOMAIN AnsiOpen |-> IF style = "separator" THEN "ESC[22m" ELSE "ESC[39m"]

\* a chalk style applied to a text
paint(style, text, colors) ==
    IF colors /\ text # <<>> THEN <<AnsiOpen[style]>> \o text \o <<AnsiClose[style]>> ELSE text

\* the names of COLUMN_COLORS, as character sequences
ColumnColorNames ==
    [artist |-> <<"a","r","t","i","s","t">>, album |-> <<"a","l","b","u","m">>,
     track |-> <<"t","r","a","c","k">>, playlist |-> <<"p","l","a","y","l","i","s","t">>,
     title |-> <<"t","i","t","l","e">>,
     separator |-> <<"s","e","p","a","r","a","t","o","r">>]

\* getColumnColor(columnName): the style of COLUMN_COLORS, or chalk.white
getColumnColor(columnName) ==
    LET lower == toLowerCase(columnName) IN
    IF \E k \in DOMAIN ColumnColorNames : ColumnColorNames[k] = lower
    THEN CHOOSE k \in DOMAIN ColumnColorNames : ColumnColorNames[k] = lower
    ELSE "white"

\* String.prototype.indexOf: the 0-based place of the first occurrence, or -1
indexOf(s, p) ==
    IF includes(s, p)
    THEN CHOOSE i \in 0..(Len(s) - Len(p)) :
            /\ SubSeq(s, i + 1, i + Len(p)) = p
            /\ \A j \in 0..(i - 1) : SubSeq(s, j + 1, j + Len(p)) # p
    ELSE -1

Dash == <<" ","-"," ">>
Dot == <<" ","·"," ">>

\* generateColorizedSingleColumn(values, columnType)
generateColorizedSingleColumn(vs, columnType, colors) ==
    LET separator == paint("separator", Dot, colors)
        compound(v) ==
            LET dashIndex == indexOf(v, Dash) IN
            IF dashIndex > -1
            THEN LET artist == SubSeq(v, 1, dashIndex)
                     second == SubSeq(v, dashIndex + 4, Len(v))
                 IN paint("artist", artist, colors) \o separator
                       \o paint(IF columnType = ColumnColorNames.album THEN "album" ELSE "track",
                                second, colors)
            ELSE paint(getColumnColor(columnType), v, colors)
        rs == IF columnType \in {ColumnColorNames.album, ColumnColorNames.track}
              THEN [i \in 1..Len(vs) |-> compound(vs[i])]
              ELSE [i \in 1..Len(vs) |-> paint(getColumnColor(columnType), vs[i], colors)]
    IN join(rs, <<"\n">>) \o <<"\n">>

\* generateColorizedMultiColumn(rows, headers)
generateColorizedMultiColumn(rs, headers, colors) ==
    LET separator == paint("separator", Dot, colors)
        dataLines == [r \in 1..Len(rs) |->
                        join([i \in 1..Len(headers) |->
                                 paint(getColumnColor(headers[i]),
                                       OrEmpty(Get(rs[r], headers[i])), colors)],
                             separator)]
    IN join(dataLines, <<"\n">>) \o <<"\n">>

(***************************************************************************)
(* runAppleScript                                                          *)
(*                                                                         *)
(* The child is the environment.  A child that could not be started emits  *)
(* 'error' before anything else and then 'close' with a negative code; a   *)
(* child that started delivers lines and stderr chunks in any order and    *)
(* then 'close', after its streams have ended.  Lines of the chunk being   *)
(* split are still delivered after rl.close().  A kill that fails with     *)
(* EPERM would also emit 'error'; osascript runs as the caller, so the     *)
(* signal is always permitted and that event is left out.                  *)
(***************************************************************************)
NullCode == -1          \* close(code = null): the child was ended by a signal
SpawnFailCode == -2     \* close(code < 0) after a failed spawn
ExitStatuses == {0, 1, NullCode}

RawLines == { <<>>, <<"a">> }
StderrChunks == { <<"-","1","7","4","3">>,
                  <<"C","o","u","l","d","n","'","t"," ","l","a","u","n","c","h">>,
                  <<"x">>,
                  <<"\n">> }
ErrMessages == { <<"E","N","O","E","N","T">>, <<"E","A","C","C","E","S">> }

Pending == [settled |-> FALSE, exitCode |-> SUCCESS, hasError |-> FALSE,
            error |-> <<>>, lines |-> <<>>]
Success(ls) == [settled |-> TRUE, exitCode |-> SUCCESS, hasError |-> FALSE,
                error |-> <<>>, lines |-> ls]
Failure(ls, code, detail) == [settled |-> TRUE, exitCode |-> code, hasError |-> TRUE,
                              error |-> detail, lines |-> ls]

\* mutant: every call of resolve replaces the value of the promise
resolveAgain(value) == result' = value

\* resolve(value) of the promise: only the first call settles it
resolve(value) == result' = IF result.settled THEN result ELSE value

RunnerInit ==
    /\ limit \in 0..MaxLimit
    /\ onLine \in BOOLEAN
    /\ lines = <<>>
    /\ stderr = <<>>
    /\ lineCount = 0
    /\ limitReached = FALSE
    /\ result = Pending
    /\ proc = "running"
    /\ killed = FALSE
    /\ emitted = <<>>
    /\ calls = <<>>
    /\ callCtx = <<>>
    /\ closeCode = SUCCESS
    /\ errMsg = <<>>
    /\ nChunks = 0

\* limit && lineCount >= limit
LimitHit(n) == limit # 0 /\ n >= limit

\* what an onLine invocation finds: the lines pushed so far and whether
\* proc.kill has been called
Found(pushed, stopped) == [pushed |-> Len(pushed), killed |-> stopped]

\* mutant: the handler without its `if (limitReached) return` guard
RlOnLineNoGuard(line) ==
    /\ lineCount' = lineCount + 1
    /\ lines' = Append(lines, line)
    /\ calls' = IF onLine THEN Append(calls, <<line, lineCount + 1>>) ELSE calls
    /\ callCtx' = IF onLine THEN Append(callCtx, Found(Append(lines, line), killed))
                  ELSE callCtx
    /\ limitReached' = (limitReached \/ LimitHit(lineCount + 1))
    /\ killed' = (killed \/ LimitHit(lineCount + 1))

\* mutant: onLine invoked at the top of the handler, before the guard and
\* the push, for every line delivered
RlOnLineCallFirst(line) ==
    /\ calls' = IF onLine THEN Append(calls, <<line, lineCount + 1>>) ELSE calls
    /\ callCtx' = IF onLine THEN Append(callCtx, Found(lines, killed)) ELSE callCtx
    /\ IF limitReached
       THEN UNCHANGED <<lines, lineCount, limitReached, killed>>
       ELSE /\ lineCount' = lineCount + 1
            /\ lines' = Append(lines, line)
            /\ limitReached' = LimitHit(lineCount + 1)
            /\ killed' = (killed \/ LimitHit(lineCount + 1))

\* rl.on('line', (line) => { ... })
RlOnLine(line) ==
    IF limitReached
    THEN UNCHANGED <<lines, lineCount, calls, callCtx, limitReached, killed>>
    ELSE /\ lineCount' = lineCount + 1
         /\ lines' = Append(lines, line)
         /\ calls' = IF onLine THEN Append(calls, <<line, lineCount + 1>>) ELSE calls
         /\ callCtx' = IF onLine THEN Append(callCtx, Found(Append(lines, line), killed))
                       ELSE callCtx
         /\ limitReached' = LimitHit(lineCount + 1)
         /\ killed' = (killed \/ LimitHit(lineCount + 1))

\* proc.stderr.on('data', (data) => { stderr += data.toString(); })
StderrOnData(data) == stderr' = stderr \o data

\* mutant: a child ended by a signal (code = null) counted as a clean exit,
\* and the diagnostic text passed on untrimmed
ProcOnCloseLoose(code) ==
    IF limitReached \/ code = 0 \/ code = NullCode
    THEN resolve(Success(lines))
    ELSE resolve(Failure(lines, detectErrorType(stderr), stderr))

\* proc.on('close', (code) => { ... })
ProcOnClose(code) ==
    IF limitReached
    THEN resolve(Success(lines))
    ELSE IF code = 0
    THEN resolve(Success(lines))
    ELSE resolve(Failure(lines, detectErrorType(stderr), trim(stderr)))

\* mutant: the start failure reported like a failed run, from stderr
ProcOnErrorFromStderr(message) ==
    resolve(Failure(lines, detectErrorType(stderr), trim(stderr)))

\* proc.on('error', (err) => { ... })
ProcOnError(message) == resolve(Failure(lines, APPLESCRIPT_ERROR, message))

\* ---- the events of one run
\* mutant: the line that reaches the limit also resolves the run
LineResolvesAtLimit(line) ==
    /\ proc = "running"
    /\ Len(emitted) < MaxLines
    /\ emitted' = Append(emitted, line)
    /\ RlOnLine(line)
    /\ IF limitReached' THEN resolve(Success(lines')) ELSE UNCHANGED result
    /\ UNCHANGED <<limit, onLine, stderr, proc, closeCode, errMsg, nChunks, errVars, normVars, csvVars, pipelineVars>>

Line(line) ==
    /\ proc = "running"
    /\ Len(emitted) < MaxLines
    /\ emitted' = Append(emitted, line)
    /\ RlOnLine(line)
    /\ UNCHANGED <<limit, onLine, stderr, result, proc, closeCode, errMsg, nChunks, errVars, normVars, csvVars, pipelineVars>>

\* mutant: stderr chunks are still delivered after the close event
StderrDataLate(data) ==
    /\ proc \in {"running", "closed"}
    /\ nChunks < MaxChunks
    /\ nChunks' = nChunks + 1
    /\ StderrOnData(data)
    /\ UNCHANGED <<limit, onLine, lines, lineCount, limitReached, result, proc, killed,
                   emitted, calls, callCtx, closeCode, errMsg, errVars, normVars, csvVars, pipelineVars>>

StderrData(data) ==
    /\ proc = "running"
    /\ nChunks < MaxChunks
    /\ nChunks' = nChunks + 1
    /\ StderrOnData(data)
    /\ UNCHANGED <<limit, onLine, lines, lineCount, limitReached, result, proc, killed,
                   emitted, calls, callCtx, closeCode, errMsg, errVars, normVars, csvVars, pipelineVars>>

SpawnError(message) ==
    /\ proc = "running"
    /\ emitted = <<>>
    /\ stderr = <<>>
    /\ proc' = "failed"
    /\ errMsg' = message
    /\ ProcOnError(message)
    /\ UNCHANGED <<limit, onLine, lines, stderr, lineCount, limitReached, killed,
                   emitted, calls, callCtx, closeCode, nChunks, errVars, normVars, csvVars, pipelineVars>>

Close(code) ==
    /\ \/ proc = "running" /\ code \in ExitStatuses
       \/ proc = "failed" /\ code = SpawnFailCode
    /\ proc' = "closed"
    /\ closeCode' = code
    /\ ProcOnClose(code)
    /\ UNCHANGED <<limit, onLine, lines, stderr, lineCount, limitReached, killed,
                   emitted, calls, callCtx, errMsg, nChunks, errVars, normVars, csvVars, pipelineVars>>

ErrIdle == diag = <<>> /\ kind = APPLESCRIPT_ERROR /\ nFrags = 0

NormIdle ==
    /\ noTrim = FALSE /\ sort = FALSE /\ seen = <<>> /\ added = <<>>
    /\ ret = FALSE /\ out = <<>> /\ last = "new"

ColumnIdle ==
    /\ columnValues = <<>> /\ columnHeader = <<"v","a","l","u","e">>
    /\ column = <<>> /\ generated = FALSE

RenderIdle ==
    /\ renderHeaders = << <<"v","a","l","u","e">> >> /\ renderRows = <<>>
    /\ rendered = <<>> /\ renderer = "none"

CsvIdle ==
    /\ rows = <<>> /\ csv = <<>> /\ field = Undefined /\ escaped = <<>>
    /\ ColumnIdle /\ RenderIdle

ParseIdle == rawLine = <<>> /\ nPieces = 0 /\ record = NoRecord /\ parsedAs = "none"

TrackIdle ==
    /\ tracks = <<>> /\ uniqueArtists = <<>> /\ returned = FALSE
    /\ uniqueValues = <<>> /\ normalizerName = "none"
    /\ options = [fallbackAlbumArtist |-> FALSE, noTrim |-> FALSE, sort |-> FALSE]

\* no status yet: process.exit has not been called
NoExit == -1

CliIdle ==
    /\ cliOptions = [type |-> "artists", strict |-> FALSE, out |-> FALSE,
                     limit |-> 0, help |-> FALSE]
    /\ cliPhase = "start" /\ spawned = 0 /\ script = "none" /\ reported = "none"
    /\ wrote = "none" /\ writeThrew = FALSE /\ exitStatus = NoExit
    /\ extraction = [items |-> <<>>, exitCode |-> NoExit, hasError |-> FALSE, error |-> <<>>]
    /\ output = <<>> /\ chalkColors = FALSE

PipelineIdle == ParseIdle /\ TrackIdle /\ CliIdle

Init == RunnerInit /\ ErrIdle /\ NormIdle /\ CsvIdle /\ PipelineIdle

Next ==
    \/ \E line \in RawLines : Line(line)
    \/ \E data \in StderrChunks : StderrData(data)
    \/ \E message \in ErrMessages : SpawnError(message)
    \/ \E code \in ExitStatuses \cup {SpawnFailCode} : Close(code)

Spec == Init /\ [][Next]_vars

(***************************************************************************)
(* Claims about runAppleScript (specification Spec)                        *)
(***************************************************************************)

\* C1: with a positive limit L, lines never holds more than L lines, and once
\* the stream has delivered at least L lines the settled result is Success
\* with exactly the first L delivered lines, whatever the close code and
\* whatever stderr holds.
C1_LimitTruncates ==
    /\ (limit > 0 => Len(lines) <= limit)
    /\ (result.settled /\ limit > 0 /\ Len(emitted) >= limit) =>
          /\ result.exitCode = SUCCESS
          /\ ~result.hasError
          /\ result.lines = SubSeq(emitted, 1, limit)
          /\ lines = result.lines

\* a run that was truncated, received a further line after the limit, closed
\* with a non-zero status and had written a permission diagnostic
C1_Witness ==
    /\ result.settled /\ limit > 0 /\ Len(emitted) > limit
    /\ closeCode = 1 /\ detectErrorType(stderr) = PERMISSION_DENIED
    /\ result.exitCode = SUCCESS

\* C2: limit not reached and the child (which did start) closed: code 0 gives
\* Success with every delivered line in order; any other code gives Failure
\* with kind detectErrorType(stderr) and detail stderr trimmed.
C2_CloseDecides ==
    (proc = "closed" /\ ~limitReached /\ errMsg = <<>>) =>
        /\ result.settled
        /\ result.lines = emitted
        /\ IF closeCode = 0
           THEN result.exitCode = SUCCESS /\ ~result.hasError
           ELSE /\ result.hasError
                /\ result.exitCode = detectErrorType(stderr)
                /\ result.error = trim(stderr)

\* a run ended by a signal, limit not reached, whose stderr needed trimming
\* and classified as MUSIC_UNAVAILABLE, after at least one line
C2_Witness ==
    /\ proc = "closed" /\ ~limitReached /\ errMsg = <<>>
    /\ closeCode = NullCode /\ trim(stderr) # stderr /\ trim(stderr) # <<>>
    /\ result.exitCode = MUSIC_UNAVAILABLE /\ Len(emitted) >= 1

\* C3: once the error event of a child that could not start has fired, the
\* result is Failure with APPLESCRIPT_ERROR (4) and the event's message as
\* detail, and the close event that follows does not change it.
C3_SpawnErrorFails ==
    (errMsg # <<>>) =>
        /\ result.settled /\ result.hasError
        /\ result.exitCode = APPLESCRIPT_ERROR
        /\ APPLESCRIPT_ERROR = 4
        /\ result.error = errMsg

\* the error event fired and the close event with the negative code followed
C3_Witness ==
    /\ errMsg # <<>> /\ proc = "closed" /\ closeCode = SpawnFailCode
    /\ result.error = errMsg

\* C16: with onLine supplied it is invoked exactly once for every
\* accumulated line, in stream order, with the line and its 1-based index,
\* after the line was pushed and before proc.kill is called for the line
\* that reaches the limit; it is never invoked for a line that is not
\* accumulated, and never when it was not supplied.
C16_OnLine ==
    /\ Len(lines) <= Len(emitted)
    /\ \A i \in 1..Len(lines) : lines[i] = emitted[i]
    /\ onLine =>
          /\ Len(calls) = Len(lines) /\ Len(callCtx) = Len(calls)
          /\ \A i \in 1..Len(calls) :
                /\ calls[i] = <<lines[i], i>>
                /\ callCtx[i] = [pushed |-> i, killed |-> FALSE]
    /\ ~onLine => (calls = <<>> /\ callCtx = <<>>)

\* the limit was reached at the second of three delivered lines: two
\* invocations, the second made before the child was killed
C16_Witness ==
    /\ onLine /\ limit = 2 /\ killed
    /\ emitted = << <<"a">>, <<>>, <<"a">> >>
    /\ calls = << << <<"a">>, 1 >>, << <<>>, 2 >> >>
    /\ callCtx[2] = [pushed |-> 2, killed |-> FALSE]

(***************************************************************************)
(* detectErrorType over diagnostic texts (specification SpecErr)           *)
(***************************************************************************)
Fragments == {
    <<"N","o","t"," ","A","u","t","h","o","r","i","z","e","d">>,
    <<"A","S","S","I","S","T","I","V","E"," ","A","C","C","E","S","S">>,
    <<"U","s","e","r"," ","c","a","n","c","e","l","e","d">>,
    <<"e","r","r","A","E","v","e","n","t","N","o","t","P","e","r","m","i","t","t","e","d">>,
    <<"(","-","1","7","4","3",")">>,
    <<"A","p","p","l","i","c","a","t","i","o","n"," ","i","s","n","'","t"," ","r","u","n","n","i","n","g">>,
    <<"A","p","p","l","i","c","a","t","i","o","n"," ","\"","M","u","s","i","c","\""," ">>,
    <<"c","a","n","'","t"," ","b","e"," ","f","o","u","n","d">>,
    <<"C","o","n","n","e","c","t","i","o","n"," ","i","s"," ","i","n","v","a","l","i","d">>,
    <<"C","O","U","L","D","N","'","T"," ","L","A","U","N","C","H">>,
    <<"u","s","e","r"," ">>,
    <<"x">> }

RunnerIdle ==
    /\ limit = 0 /\ onLine = FALSE /\ lines = <<>> /\ stderr = <<>> /\ lineCount = 0
    /\ limitReached = FALSE /\ result = Pending /\ proc = "running" /\ killed = FALSE
    /\ emitted = <<>> /\ calls = <<>> /\ callCtx = <<>> /\ closeCode = SUCCESS /\ errMsg = <<>>
    /\ nChunks = 0

\* one more fragment of diagnostic text arrives and the text is classified
Classify(frag) ==
    /\ nFrags < MaxFrags
    /\ nFrags' = nFrags + 1
    /\ diag' = diag \o frag
    /\ kind' = detectErrorType(diag')
    /\ UNCHANGED <<runnerVars, normVars, csvVars, pipelineVars>>

InitErr == RunnerIdle /\ ErrIdle /\ NormIdle /\ CsvIdle /\ PipelineIdle
NextErr == \E frag \in Fragments : Classify(frag)
SpecErr == InitErr /\ [][NextErr]_vars

\* text contains pattern (given in lower case) in any letter case
ContainsAnyCase(text, pattern) ==
    \E i \in 0..(Len(text) - Len(pattern)) :
        \A j \in 1..Len(pattern) : LowerChar(text[i + j]) = pattern[j]

ClaimedPermission == {
    <<"n","o","t"," ","a","u","t","h","o","r","i","z","e","d">>,
    <<"a","s","s","i","s","t","i","v","e"," ","a","c","c","e","s","s">>,
    <<"u","s","e","r"," ","c","a","n","c","e","l","e","d">>,
    <<"e","r","r","a","e","v","e","n","t","n","o","t","p","e","r","m","i","t","t","e","d">>,
    <<"-","1","7","4","3">> }

CantBeFound == <<"c","a","n","'","t"," ","b","e"," ","f","o","u","n","d">>
MusicCantBeFound ==
    <<"a","p","p","l","i","c","a","t","i","o","n"," ","\"","m","u","s","i","c","\""," ">>
        \o CantBeFound

ClaimedUnavailable == {
    <<"a","p","p","l","i","c","a","t","i","o","n"," ","i","s","n","'","t"," ","r","u","n","n","i","n","g">>,
    CantBeFound,
    <<"c","o","n","n","e","c","t","i","o","n"," ","i","s"," ","i","n","v","a","l","i","d">>,
    <<"c","o","u","l","d","n","'","t"," ","l","a","u","n","c","h">> }

MatchesPermission(text) == \E p \in ClaimedPermission : ContainsAnyCase(text, p)

MatchesUnavailable(text) ==
    \E p \in (ClaimedUnavailable \ {CantBeFound}) \cup {MusicCantBeFound} :
        ContainsAnyCase(text, p)

\* C11: the rules apply in order, first match wins: a text with both a
\* permission substring and an availability substring is PERMISSION_DENIED,
\* and a text that matches neither rule is APPLESCRIPT_ERROR (4).
C11_Precedence ==
    /\ (MatchesPermission(diag) /\ MatchesUnavailable(diag))
          => kind = PERMISSION_DENIED
    /\ (~MatchesPermission(diag) /\ ~MatchesUnavailable(diag))
          => (kind = APPLESCRIPT_ERROR /\ APPLESCRIPT_ERROR = 4)

\* a classified text where the availability phrase comes first and the
\* permission code second
C11_Witness ==
    /\ nFrags = 2 /\ kind = PERMISSION_DENIED
    /\ diag = <<"C","O","U","L","D","N","'","T"," ","L","A","U","N","C","H">>
                 \o <<"(","-","1","7","4","3",")">>
    /\ MatchesPermission(diag) /\ MatchesUnavailable(diag)

(***************************************************************************)
(* One normalizer and the calls made on it (specification SpecNorm)        *)
(***************************************************************************)
AddValues == { <<>>, <<" ">>, <<"a">>, <<"A">>, <<" ","a">>, <<"A"," ">>,
               <<"b">>, <<"B">>, <<"A","b">>, <<"a","B">>, <<"a"," ","b">> }

\* createNormalizer(options)
InitNorm ==
    /\ RunnerIdle /\ ErrIdle /\ CsvIdle /\ PipelineIdle
    /\ noTrim \in BOOLEAN
    /\ sort \in BOOLEAN
    /\ seen = <<>>
    /\ added = <<>>
    /\ ret = FALSE
    /\ out = <<>>
    /\ last = "new"

Add(value) ==
    /\ Len(added) < MaxAdds
    /\ added' = Append(added, value)
    /\ add(value)
    /\ last' = "add"
    /\ UNCHANGED <<noTrim, sort, out, runnerVars, errVars, csvVars, pipelineVars>>

GetUniqueValues ==
    /\ out' = getUniqueValues
    /\ last' = "get"
    /\ UNCHANGED <<noTrim, sort, seen, added, ret, runnerVars, errVars, csvVars, pipelineVars>>

NextNorm ==
    \/ \E value \in AddValues : Add(value)
    \/ GetUniqueValues

SpecNorm == InitNorm /\ [][NextNorm]_vars

\* the value add works on: trimmed unless noTrim
PostTrim(value) == IF noTrim THEN value ELSE trim(value)

SameIgnoringCase(a, b) ==
    Len(a) = Len(b) /\ \A i \in 1..Len(a) : LowerChar(a[i]) = LowerChar(b[i])

\* the calls that passed a value which is non-empty after the trimming
Kept == { i \in 1..Len(added) : PostTrim(added[i]) # <<>> }
\* the calls that were the first to bring their case-folded value
Firsts == { i \in Kept : \A j \in Kept : j < i => ~SameIgnoringCase(PostTrim(added[i]),
                                                                      PostTrim(added[j])) }

RECURSIVE FirstOccurrences(_)
FirstOccurrences(n) ==
    IF n = 0 THEN <<>>
    ELSE IF n \in Firsts THEN Append(FirstOccurrences(n - 1), PostTrim(added[n]))
    ELSE FirstOccurrences(n - 1)

\* C4: seen holds exactly one entry per distinct case-folded value among the
\* non-empty added values, and each entry shows the post-trim value of the
\* first add that brought its key.
C4_OneEntryPerKey ==
    /\ \A i, j \in 1..Len(seen) : i # j => ~SameIgnoringCase(seen[i].value, seen[j].value)
    /\ \A i \in Kept : \E k \in 1..Len(seen) : SameIgnoringCase(seen[k].value, PostTrim(added[i]))
    /\ \A k \in 1..Len(seen) : \E i \in Firsts : seen[k].value = PostTrim(added[i])
    /\ Len(seen) = Cardinality(Firsts)

\* "Abba"-style duplicates: the same letters added in two casings with another
\* value between them, and the one entry shows the casing added first
C4_Witness ==
    /\ Len(added) = 3 /\ added[1] = <<"a","B">> /\ added[2] = <<"b">> /\ added[3] = <<"A","b">>
    /\ Len(seen) = 2 /\ seen[1].value = <<"a","B">>

\* C5: add returns true exactly when it stores a new entry (count grows by
\* one); on a known key it returns false and leaves seen (count, display
\* values, order) as it was.
C5_AddReturn ==
    [][ (Len(added') = Len(added) + 1) =>
          LET v == PostTrim(added'[Len(added')])
              known == \E k \in 1..Len(seen) : SameIgnoringCase(seen[k].value, v)
          IN /\ ret' = (Len(seen') = Len(seen) + 1)
             /\ Len(seen') \in {Len(seen), Len(seen) + 1}
             /\ (ret' => seen' = Append(seen, seen'[Len(seen')]) /\ seen'[Len(seen')].value = v)
             /\ (~ret' => seen' = seen)
             /\ (known => ~ret')
             /\ ((~known /\ v # <<>>) => ret') ]_vars

\* an add that returned false for a differently cased duplicate of a stored value
C5_Witness ==
    /\ last = "add" /\ ret = FALSE /\ Len(added) = 2 /\ Len(seen) = 1
    /\ added[2] # added[1] /\ PostTrim(added[2]) # <<>>

IsPermutation(s, t) ==
    /\ Len(s) = Len(t)
    /\ \E f \in [1..Len(s) -> 1..Len(s)] :
          /\ \A i, j \in 1..Len(s) : i # j => f[i] # f[j]
          /\ \A i \in 1..Len(s) : s[i] = t[f[i]]

\* C6: getUniqueValues returns the display values in first-occurrence order
\* without sort, in ascending localeCompare order with sort, and in both
\* cases a permutation of the stored display values.
C6_Order ==
    (last = "get") =>
        /\ IsPermutation(out, values(seen))
        /\ (~sort => out = FirstOccurrences(Len(added)))
        /\ (sort => \A i \in 1..(Len(out) - 1) : localeCompare(out[i], out[i + 1]) <= 0)

\* a sorted result whose order differs from the insertion order, with a
\* capital and a small letter to be told apart
C6_Witness ==
    /\ last = "get" /\ sort /\ Len(out) = 3
    /\ out # values(seen)
    /\ out[1] = <<"a">> /\ out[2] = <<"A","b">> /\ out[3] = <<"B">>

\* C14 as claimed: whatever noTrim is, add returns false for a value that is
\* empty after trimming and stores nothing, so that no stored display value
\* is empty or whitespace-only.
C14_NoBlankStored ==
    /\ \A i \in 1..Len(seen) : trim(seen[i].value) # <<>>
    /\ (last = "add" /\ trim(added[Len(added)]) = <<>>) => ret = FALSE

\* C15: normalization is idempotent: for every list of values and every
\* (noTrim, sort), normalizeArtists applied to its own result gives that
\* result again, the same values in the same order.  The result is the one
\* the normalizer gave for the values added.
C15_Idempotent ==
    (last = "get") =>
        /\ out = normalizeArtists(added, noTrim, sort)
        /\ normalizeArtists(out, noTrim, sort) = out

\* a result of two values, got from three raw values of which one needed
\* trimming and one was a duplicate in another case
C15_Witness ==
    /\ last = "get" /\ ~noTrim
    /\ added = << <<" ","a">>, <<"b">>, <<"A">> >>
    /\ out = << <<"a">>, <<"b">> >>
    /\ normalizeArtists(out, noTrim, sort) = out

(***************************************************************************)
(* escapeField over values (specification SpecEsc)                         *)
(***************************************************************************)
EscAlphabet == {"a", ",", DQUOTE, "\r", "\n"}
EscStrings == UNION { [1..n -> EscAlphabet] : n \in 0..MaxFieldLen }
EscValues == {Null, Undefined} \cup { Str(s) : s \in EscStrings }

InitEsc == RunnerIdle /\ ErrIdle /\ NormIdle /\ CsvIdle /\ PipelineIdle

EscapeField(value) ==
    /\ field' = value
    /\ escaped' = escapeField(value)
    /\ UNCHANGED <<rows, csv, columnValues, columnHeader, column, generated, renderVars,
                   runnerVars, errVars, normVars, pipelineVars>>

NextEsc == \E value \in EscValues : EscapeField(value)
SpecEsc == InitEsc /\ [][NextEsc]_vars

\* s with every double quote written twice
Doubled(s) ==
    LET quotesBefore(i) == Cardinality({ j \in 1..(i - 1) : s[j] = DQUOTE })
        n == Len(s) + quotesBefore(Len(s) + 1)
    IN [k \in 1..n |->
          LET i == CHOOSE i \in 1..Len(s) :
                      k \in (i + quotesBefore(i))..(i + quotesBefore(i + 1))
          IN s[i]]

\* C7: a string with a comma, double quote, CR or LF comes back wrapped in
\* double quotes with every inner double quote doubled; every other string
\* comes back unchanged (so unwrapped); null and undefined come back as "".
C7_EscapeField ==
    /\ (field.type = "string" /\ \E i \in 1..Len(field.s) : field.s[i] \in {",", DQUOTE, "\r", "\n"})
          => escaped = <<DQUOTE>> \o Doubled(field.s) \o <<DQUOTE>>
    /\ (field.type = "string" /\ \A i \in 1..Len(field.s) : field.s[i] \notin {",", DQUOTE, "\r", "\n"})
          => escaped = field.s
    /\ (field.type \in {"null", "undefined"}) => escaped = <<>>

\* a value whose only special character is a carriage return, escaped
C7_Witness ==
    /\ field = Str(<<"a", "\r", "a">>)
    /\ escaped = <<DQUOTE, "a", "\r", "a", DQUOTE>>

(***************************************************************************)
(* generateMultiColumnCSV over row lists (specification SpecCsv)           *)
(***************************************************************************)
Title == <<"t","i","t","l","e">>
AlbumArtist == <<"a","l","b","u","m","_","a","r","t","i","s","t">>
Headers == <<Title, AlbumArtist>>

HeSaid == <<"H","e"," ","s","a","i","d"," ",DQUOTE,"h","i",DQUOTE,","," ","t","w","i","c","e">>
HeSaidEmitted ==
    <<DQUOTE,"H","e"," ","s","a","i","d"," ",DQUOTE,DQUOTE,"h","i",DQUOTE,DQUOTE,",",
      " ","t","w","i","c","e",DQUOTE>>

FieldValues == { <<>>, <<"a">>, <<",">>, <<DQUOTE>>, <<"a","\n","b">>, HeSaid }
RowObjects == { [h \in {Title, AlbumArtist} |-> Str(f[h])] :
                   f \in [{Title, AlbumArtist} -> FieldValues] }

InitCsv == RunnerIdle /\ ErrIdle /\ NormIdle /\ CsvIdle /\ PipelineIdle

\* one more row object, and the content generated for the list
GenerateMultiColumnCSV(row) ==
    /\ Len(rows) < MaxRows
    /\ rows' = Append(rows, row)
    /\ csv' = generateMultiColumnCSV(rows', Headers)
    /\ UNCHANGED <<field, escaped, columnValues, columnHeader, column, generated, renderVars,
                   runnerVars, errVars, normVars, pipelineVars>>

NextCsv == \E row \in RowObjects : GenerateMultiColumnCSV(row)
SpecCsv == InitCsv /\ [][NextCsv]_vars

\* An RFC4180 reader.  A character stands outside quotes iff an even number
\* of double quotes precedes it; a record ends at a line feed outside quotes,
\* a field at a comma outside quotes; a field written in quotes loses them,
\* and each doubled double quote inside stands for one.
OutsideQuotes(text, i) == Cardinality({ j \in 1..(i - 1) : text[j] = DQUOTE }) % 2 = 0

\* the pieces of text between the positions in seps (a set of positions),
\* the text after the last position being one more piece
Pieces(text, seps) ==
    LET nth(k) == CHOOSE p \in seps : Cardinality({ q \in seps : q < p }) = k - 1
        from(k) == IF k = 1 THEN 1 ELSE nth(k - 1) + 1
        to(k) == IF k = Cardinality(seps) + 1 THEN Len(text) ELSE nth(k) - 1
    IN [k \in 1..(Cardinality(seps) + 1) |-> SubSeq(text, from(k), to(k))]

RECURSIVE Undouble(_)
Undouble(s) ==
    IF s = <<>> THEN <<>>
    ELSE IF Head(s) = DQUOTE /\ Len(s) >= 2 /\ s[2] = DQUOTE
    THEN <<DQUOTE>> \o Undouble(SubSeq(s, 3, Len(s)))
    ELSE <<Head(s)>> \o Undouble(Tail(s))

ReadField(raw) ==
    IF Len(raw) >= 2 /\ raw[1] = DQUOTE /\ raw[Len(raw)] = DQUOTE
    THEN Undouble(SubSeq(raw, 2, Len(raw) - 1))
    ELSE raw

ReadRecord(line) ==
    LET commas == { i \in 1..Len(line) : line[i] = "," /\ OutsideQuotes(line, i) }
        raw == Pieces(line, commas)
    IN [k \in 1..Len(raw) |-> ReadField(raw[k])]

\* the records of a content whose every record ends with a line feed
ReadCsv(text) ==
    LET feeds == { i \in 1..Len(text) : text[i] = "\n" /\ OutsideQuotes(text, i) }
        all == Pieces(text, feeds)
        ended == SubSeq(all, 1, Len(all) - 1)
    IN [k \in 1..Len(ended) |-> ReadRecord(ended[k])]

DataRecords(text) == Tail(ReadCsv(text))

\* C8: reading the data lines of the generated content back, splitting on the
\* commas outside quotes, gives the field values of each record in header
\* order; the field He said "hi", twice is emitted as "He said ""hi"", twice".
C8_RoundTrip ==
    (csv # <<>>) =>
        /\ csv[Len(csv)] = "\n"
        /\ DataRecords(csv) =
              [r \in 1..Len(rows) |-> [i \in 1..Len(Headers) |-> rows[r][Headers[i]].s]]
        /\ (\E r \in 1..Len(rows) : \E h \in DOMAIN rows[r] : rows[r][h].s = HeSaid)
              => includes(csv, HeSaidEmitted)

\* two records, one with the quoted example next to a field holding a line
\* feed, one with a comma and an empty field
C8_Witness ==
    /\ Len(rows) = 2
    /\ rows[1][Title].s = HeSaid /\ rows[1][AlbumArtist].s = <<"a","\n","b">>
    /\ rows[2][Title].s = <<",">> /\ rows[2][AlbumArtist].s = <<>>
    /\ includes(csv, HeSaidEmitted)

(***************************************************************************)
(* The record parser over output lines (specification SpecParse)           *)
(***************************************************************************)
LinePieces == { <<"a">>, <<"|">>, Sep, <<"b">> \o Sep }

\* the line grows by one piece
Piece(p) ==
    /\ parsedAs = "none" /\ nPieces < MaxPieces
    /\ rawLine' = rawLine \o p
    /\ nPieces' = nPieces + 1
    /\ UNCHANGED <<record, parsedAs, runnerVars, errVars, normVars, csvVars, trackVars, cliVars>>

\* result.lines.map(...) of extractTracks applied to the line
MapTrackLine ==
    /\ parsedAs = "none"
    /\ record' = parseTrackLine(rawLine)
    /\ parsedAs' = "track"
    /\ UNCHANGED <<rawLine, nPieces, runnerVars, errVars, normVars, csvVars, trackVars, cliVars>>

\* result.lines.map(...) of extractPlaylistTracks applied to the line
MapPlaylistTrackLine ==
    /\ parsedAs = "none"
    /\ record' = parsePlaylistTrackLine(rawLine)
    /\ parsedAs' = "playlistTrack"
    /\ UNCHANGED <<rawLine, nPieces, runnerVars, errVars, normVars, csvVars, trackVars, cliVars>>

InitParse == RunnerIdle /\ ErrIdle /\ NormIdle /\ CsvIdle /\ PipelineIdle
NextParse ==
    \/ \E p \in LinePieces : Piece(p)
    \/ MapTrackLine
    \/ MapPlaylistTrackLine
SpecParse == InitParse /\ [][NextParse]_vars

\* segs are the segments of text between its separators, the separators
\* taken from the left: joined by the separator they give the text back, the
\* separator that ends a segment is the first one in it, and the last
\* segment holds none
IsSegmentation(segs, text) ==
    /\ Len(segs) >= 1
    /\ join(segs, Sep) = text
    /\ \A i \in 1..(Len(segs) - 1) :
          \A k \in 1..Len(segs[i]) :
              SubSeq(segs[i] \o Sep, k, k + Len(Sep) - 1) # Sep
    /\ ~includes(segs[Len(segs)], Sep)

\* the i-th segment, the empty string when there is none
Segment(segs, i) == IF i <= Len(segs) THEN segs[i] ELSE <<>>

\* C12: every line is mapped to an object with exactly the expected fields:
\* field i is the i-th |||-separated segment, the empty string when the
\* line has fewer segments; further segments are dropped.
C12_RecordParser ==
    LET segs == splitString(rawLine, Sep) IN
    /\ IsSegmentation(segs, rawLine)
    /\ parsedAs = "track" =>
          /\ DOMAIN record = {"title", "artist", "albumArtist", "album"}
          /\ record.title = Segment(segs, 1)
          /\ record.artist = Segment(segs, 2)
          /\ record.albumArtist = Segment(segs, 3)
          /\ record.album = Segment(segs, 4)
    /\ parsedAs = "playlistTrack" =>
          /\ DOMAIN record = {"playlist", "track", "artist"}
          /\ record.playlist = Segment(segs, 1)
          /\ record.track = Segment(segs, 2)
          /\ record.artist = Segment(segs, 3)

\* a track line of five segments, the fifth dropped
C12_Witness ==
    /\ parsedAs = "track"
    /\ Len(splitString(rawLine, Sep)) = 5
    /\ splitString(rawLine, Sep)[5] = <<"a">>
    /\ record.title = <<"b">> /\ record.album = <<"b">>

(***************************************************************************)
(* normalizeArtistsFromTracks over track lists (specification SpecTracks)  *)
(***************************************************************************)
VariousArtists == <<"V","a">>
TrackObjects ==
    [artist : {<<>>, <<" ">>, <<"a">>, <<"A"," ">>},
     albumArtist : {<<>>, <<" ">>, VariousArtists}]

InitTracks ==
    /\ RunnerIdle /\ ErrIdle /\ NormIdle /\ CsvIdle /\ ParseIdle /\ CliIdle
    /\ tracks = <<>> /\ uniqueArtists = <<>> /\ returned = FALSE
    /\ uniqueValues = <<>> /\ normalizerName = "none"
    /\ options \in [fallbackAlbumArtist : BOOLEAN, noTrim : BOOLEAN, sort : BOOLEAN]

\* the caller's list grows by one track object
Track(t) ==
    /\ ~returned /\ Len(tracks) < MaxTracks
    /\ tracks' = Append(tracks, t)
    /\ UNCHANGED <<options, uniqueArtists, returned, uniqueValues, normalizerName,
                   runnerVars, errVars, normVars, csvVars, parseVars, cliVars>>

NormalizeArtistsFromTracks ==
    /\ ~returned
    /\ uniqueArtists' = normalizeArtistsFromTracks(tracks, options)
    /\ returned' = TRUE
    /\ UNCHANGED <<tracks, options, uniqueValues, normalizerName,
                   runnerVars, errVars, normVars, csvVars, parseVars, cliVars>>

NextTracks ==
    \/ \E t \in TrackObjects : Track(t)
    \/ NormalizeArtistsFromTracks
SpecTracks == InitTracks /\ [][NextTracks]_vars

\* what one record contributes: its artist if that is not blank after
\* trimming, otherwise its albumArtist with the fallback and nothing without
Contribution(track, fb) ==
    IF trim(track.artist) # <<>> THEN <<track.artist>>
    ELSE IF fb THEN <<track.albumArtist>>
    ELSE <<>>

RECURSIVE Contributions(_, _)
Contributions(ts, fb) ==
    IF ts = <<>> THEN <<>>
    ELSE Contribution(Head(ts), fb) \o Contributions(Tail(ts), fb)

\* C13 as claimed: the result is the normalization of the records'
\* contributions: the artist if non-blank after trimming, otherwise the
\* albumArtist when the fallback is enabled and nothing when it is disabled.
C13_Fallback ==
    returned =>
        uniqueArtists = normalizeArtists(Contributions(tracks, options.fallbackAlbumArtist),
                                         options.noTrim, options.sort)

(***************************************************************************)
(* One command line run (specification SpecCli)                            *)
(*                                                                         *)
(* main with arguments that parseArgs accepts: help, the system checks,    *)
(* the handler of the type up to its await, the child's events (the        *)
(* actions of Spec), and the rest of the handler once the promise of       *)
(* runAppleScript is settled.  writeFileSync either returns or throws.     *)
(***************************************************************************)
(***************************************************************************)
(* The qualified normalizers (src/src/extractor.js:245-289): albums and    *)
(* track titles, each prefixed by an artist when the track names one.      *)
(***************************************************************************)

\* a || b || '' on two strings: the first that is not the empty string
Or(a, b) == IF a # <<>> THEN a ELSE IF b # <<>> THEN b ELSE <<>>

RECURSIVE addAlbums(_, _, _)
\* the loop of normalizeAlbums over the tracks
addAlbums(map, ts, nt) ==
    IF ts = <<>> THEN map
    ELSE LET track == Head(ts)
             artist == trim(Or(track.albumArtist, track.artist))
             album == trim(track.album)
         IN addAlbums(IF track.album # <<>>
                      THEN IF artist # <<>>
                           THEN addTo(map, artist \o Dash \o album, nt)
                           ELSE addTo(map, album, nt)
                      ELSE map,
                      Tail(ts), nt)

\* normalizeAlbums(tracks, options)
normalizeAlbums(ts, opts) ==
    uniqueValuesOf(addAlbums(<<>>, ts, opts.noTrim), opts.sort)

RECURSIVE addTitles(_, _, _)
\* the loop of normalizeTracks over the tracks
addTitles(map, ts, nt) ==
    IF ts = <<>> THEN map
    ELSE LET track == Head(ts)
             artist == trim(Or(track.artist, track.albumArtist))
             title == trim(track.title)
         IN addTitles(IF track.title # <<>>
                      THEN IF artist # <<>>
                           THEN addTo(map, artist \o Dash \o title, nt)
                           ELSE addTo(map, title, nt)
                      ELSE map,
                      Tail(ts), nt)

\* normalizeTracks(tracks, options)
normalizeTracks(ts, opts) ==
    uniqueValuesOf(addTitles(<<>>, ts, opts.noTrim), opts.sort)

\* the column names of the handlers
Artist == <<"a","r","t","i","s","t">>
Album == <<"a","l","b","u","m">>
Playlist == <<"p","l","a","y","l","i","s","t">>

\* normalizePlaylists(playlists, options)
normalizePlaylists(playlists, opts) == normalizeArtists(playlists, opts.noTrim, opts.sort)

TrackColumn == <<"t","r","a","c","k">>
DetailedHeaders == <<Artist, Album, TrackColumn>>
PlaylistTrackHeaders == <<Playlist, Artist, Album, TrackColumn>>

\* the comparator of result.sort: the first of the keys on which a and b differ
RECURSIVE compareRows(_, _, _)
compareRows(a, b, keys) ==
    IF keys = <<>> THEN 0
    ELSE LET cmp == localeCompare(a[Head(keys)].s, b[Head(keys)].s) IN
         IF cmp # 0 THEN cmp ELSE compareRows(a, b, Tail(keys))

RECURSIVE InsertRow(_, _, _)
InsertRow(sorted, row, keys) ==
    IF sorted = <<>> THEN <<row>>
    ELSE IF compareRows(row, Head(sorted), keys) < 0 THEN <<row>> \o sorted
    ELSE <<Head(sorted)>> \o InsertRow(Tail(sorted), row, keys)

\* result.sort(comparator): a stable sort, here by insertion
RECURSIVE sortRows(_, _)
sortRows(rs, keys) ==
    IF rs = <<>> THEN <<>>
    ELSE InsertRow(sortRows(SubSeq(rs, 1, Len(rs) - 1), keys), rs[Len(rs)], keys)

\* prepareDetailedTracks(tracks, options): one row for every track
prepareDetailedTracks(ts, opts) ==
    LET mapped == [i \in 1..Len(ts) |->
                     (Artist :> Str(trim(Or(ts[i].artist, ts[i].albumArtist))))
                     @@ (Album :> Str(trim(ts[i].album)))
                     @@ (TrackColumn :> Str(trim(ts[i].title)))]
    IN IF opts.sort THEN sortRows(mapped, <<Artist, Album, TrackColumn>>) ELSE mapped

\* preparePlaylistTracks(playlistTracks, options): one row for every entry; the
\* entries of extractPlaylistTracks have no album, (pt.album || '') is ''
preparePlaylistTracks(pts, opts) ==
    LET mapped == [i \in 1..Len(pts) |->
                     (Playlist :> Str(trim(pts[i].playlist)))
                     @@ (Artist :> Str(trim(pts[i].artist)))
                     @@ (Album :> Str(IF "album" \in DOMAIN pts[i]
                                      THEN trim(pts[i].album) ELSE <<>>))
                     @@ (TrackColumn :> Str(trim(pts[i].track)))]
    IN IF opts.sort THEN sortRows(mapped, <<Playlist, Artist, TrackColumn>>) ELSE mapped

(***************************************************************************)
(* The extract functions: what each makes of the result of runAppleScript  *)
(***************************************************************************)

\* extractArtists, extractPlaylists: { artists: result.lines, exitCode, error }
extractLines(res) ==
    [items |-> res.lines, exitCode |-> res.exitCode,
     hasError |-> res.hasError, error |-> res.error]

\* extractTracks: an empty array on a failure, else one track for every line
extractTracks(res) ==
    IF res.exitCode # SUCCESS
    THEN [items |-> <<>>, exitCode |-> res.exitCode,
          hasError |-> res.hasError, error |-> res.error]
    ELSE [items |-> [i \in 1..Len(res.lines) |-> parseTrackLine(res.lines[i])],
          exitCode |-> SUCCESS, hasError |-> FALSE, error |-> <<>>]

\* extractPlaylistTracks: an empty array on a failure, else one entry for every line
extractPlaylistTracks(res) ==
    IF res.exitCode # SUCCESS
    THEN [items |-> <<>>, exitCode |-> res.exitCode,
          hasError |-> res.hasError, error |-> res.error]
    ELSE [items |-> [i \in 1..Len(res.lines) |-> parsePlaylistTrackLine(res.lines[i])],
          exitCode |-> SUCCESS, hasError |-> FALSE, error |-> <<>>]

\* the object the named extract function returns for the runner's result
extract(name, res) ==
    CASE name \in {"extractArtists", "extractPlaylists"} -> extractLines(res)
      [] name = "extractTracks" -> extractTracks(res)
      [] name = "extractPlaylistTracks" -> extractPlaylistTracks(res)

\* parseArgs without --sort and --no-trim (src/src/normalizer.js:304-306)
DefaultOptions == [noTrim |-> FALSE, sort |-> FALSE]

\* the content a handler writes for the extracted items: to the file with
\* write...CSV, to stdout with generateColorized...
handlerContent(opts, items, toFile, colors) ==
    LET single(vs, header) ==
            IF toFile THEN generateSingleColumnCSV(vs, header)
            ELSE generateColorizedSingleColumn(vs, header, colors)
        multi(rs, headers) ==
            IF toFile THEN generateMultiColumnCSV(rs, headers)
            ELSE generateColorizedMultiColumn(rs, headers, colors)
        normOpts == [fallbackAlbumArtist |-> TRUE, noTrim |-> DefaultOptions.noTrim,
                     sort |-> DefaultOptions.sort]
    IN CASE opts.type = "artists" ->
              single(IF opts.strict
                     THEN normalizeArtists(items, normOpts.noTrim, normOpts.sort)
                     ELSE normalizeArtistsFromTracks(items, normOpts), Artist)
         [] opts.type = "albums" -> single(normalizeAlbums(items, normOpts), Album)
         [] opts.type = "tracks" -> single(normalizeTracks(items, normOpts), TrackColumn)
         [] opts.type = "playlists" -> single(normalizePlaylists(items, normOpts), Playlist)
         [] opts.type = "playlist-tracks" ->
              multi(preparePlaylistTracks(items, normOpts), PlaylistTrackHeaders)
         [] opts.type = "detailed" ->
              multi(prepareDetailedTracks(items, normOpts), DetailedHeaders)

(***************************************************************************)
(* The command line run                                                    *)
(***************************************************************************)
VALID_TYPES == {"artists", "albums", "tracks", "playlists", "playlist-tracks", "detailed"}

\* the extract function the handler of the type calls
extractFunction(type, strict) ==
    CASE type = "artists" -> IF strict THEN "extractArtists" ELSE "extractTracks"
      [] type \in {"albums", "tracks", "detailed"} -> "extractTracks"
      [] type = "playlists" -> "extractPlaylists"
      [] type = "playlist-tracks" -> "extractPlaylistTracks"

\* getErrorMessage(exitCode, stderr): the first line of the message
getErrorMessage(exitCode) ==
    CASE exitCode = MUSIC_UNAVAILABLE -> "Error: Music.app is not available or cannot be launched."
      [] exitCode = PERMISSION_DENIED -> "Error: Automation permission denied."
      [] exitCode = APPLESCRIPT_ERROR -> "Error: Unexpected extraction error."
      [] exitCode = FILE_WRITE_ERROR -> "Error: Failed to write CSV file."
      [] OTHER -> "Error: Unknown error"

InitCli ==
    /\ RunnerIdle /\ ErrIdle /\ NormIdle /\ CsvIdle /\ ParseIdle /\ TrackIdle
    /\ cliOptions \in [type : VALID_TYPES, strict : BOOLEAN, out : BOOLEAN,
                        limit : 0..MaxLimit, help : BOOLEAN]
    /\ cliPhase = "start" /\ spawned = 0 /\ script = "none" /\ reported = "none"
    /\ wrote = "none" /\ writeThrew = FALSE /\ exitStatus = NoExit
    /\ extraction = [items |-> <<>>, exitCode |-> NoExit, hasError |-> FALSE, error |-> <<>>]
    /\ output = <<>> /\ chalkColors = FALSE

\* main() up to the await of the handler's extract call
Main(checksOk) ==
    /\ cliPhase = "start"
    /\ IF cliOptions.help
       THEN /\ reported' = "help" /\ exitStatus' = 0 /\ cliPhase' = "exited"
            /\ UNCHANGED <<spawned, script, limit>>
       ELSE IF ~checksOk
       THEN /\ reported' = "systemCheck.message" /\ exitStatus' = 1 /\ cliPhase' = "exited"
            /\ UNCHANGED <<spawned, script, limit>>
       ELSE /\ script' = extractFunction(cliOptions.type, cliOptions.strict)
            /\ limit' = cliOptions.limit
            /\ spawned' = spawned + 1
            /\ cliPhase' = "awaiting"
            /\ UNCHANGED <<reported, exitStatus>>
    /\ UNCHANGED <<cliOptions, wrote, writeThrew, extraction, output, chalkColors>>
    /\ UNCHANGED <<onLine, lines, stderr, lineCount, limitReached, result, proc, killed,
                   emitted, calls, callCtx, closeCode, errMsg, nChunks>>
    /\ UNCHANGED <<errVars, normVars, csvVars, parseVars, trackVars>>

\* mutant: a failed extraction leaves with the generic status 1
HandlerResumesGeneric(throws, colors) ==
    /\ cliPhase = "awaiting" /\ result.settled
    /\ LET ext == extract(script, result) IN
               /\ extraction' = ext
               /\ cliPhase' = "exited"
               /\ IF ext.exitCode # SUCCESS
                  THEN /\ reported' = getErrorMessage(ext.exitCode)
                       /\ exitStatus' = 1
                       /\ UNCHANGED <<wrote, writeThrew, output, chalkColors>>
                  ELSE IF cliOptions.out /\ throws
                  THEN /\ writeThrew' = TRUE
                       /\ reported' = "Unexpected error"
                       /\ exitStatus' = 1
                       /\ UNCHANGED <<wrote, output, chalkColors>>
                  ELSE /\ wrote' = IF cliOptions.out THEN "file" ELSE "stdout"
                       /\ chalkColors' = (~cliOptions.out /\ colors)
                       /\ output' = handlerContent(cliOptions, ext.items, cliOptions.out,
                                                   chalkColors')
                       /\ reported' = "Exported"
                       /\ exitStatus' = SUCCESS
                       /\ UNCHANGED writeThrew
    /\ UNCHANGED <<cliOptions, spawned, script>>
    /\ UNCHANGED <<runnerVars, errVars, normVars, csvVars, parseVars, trackVars>>

\* mutant: the handler writes what was extracted before it looks at the status
HandlerResumesWritesFirst(throws, colors) ==
    /\ cliPhase = "awaiting" /\ result.settled
    /\ LET ext == extract(script, result) IN
               /\ extraction' = ext
               /\ cliPhase' = "exited"
               /\ wrote' = IF cliOptions.out THEN "file" ELSE "stdout"
               /\ chalkColors' = (~cliOptions.out /\ colors)
               /\ output' = handlerContent(cliOptions, ext.items, cliOptions.out,
                                           chalkColors')
               /\ IF ext.exitCode # SUCCESS
                  THEN /\ reported' = getErrorMessage(ext.exitCode)
                       /\ exitStatus' = ext.exitCode
                  ELSE /\ reported' = "Exported"
                       /\ exitStatus' = SUCCESS
               /\ UNCHANGED writeThrew
    /\ UNCHANGED <<cliOptions, spawned, script>>
    /\ UNCHANGED <<runnerVars, errVars, normVars, csvVars, parseVars, trackVars>>

\* mutant: a failed extraction is run once more before it is reported
HandlerResumesRetry(throws, colors) ==
    /\ cliPhase = "awaiting" /\ result.settled
    /\ LET ext == extract(script, result) IN
         IF ext.exitCode # SUCCESS /\ spawned < 2
         THEN /\ spawned' = spawned + 1
              /\ result' = Pending
              /\ UNCHANGED <<cliPhase, reported, exitStatus, wrote, writeThrew,
                             extraction, output, chalkColors>>
         ELSE /\ extraction' = ext
              /\ cliPhase' = "exited"
              /\ UNCHANGED <<spawned, result>>
              /\ IF ext.exitCode # SUCCESS
                 THEN /\ reported' = getErrorMessage(ext.exitCode)
                      /\ exitStatus' = ext.exitCode
                      /\ UNCHANGED <<wrote, writeThrew, output, chalkColors>>
                 ELSE IF cliOptions.out /\ throws
                 THEN /\ writeThrew' = TRUE
                      /\ reported' = "Unexpected error"
                      /\ exitStatus' = 1
                      /\ UNCHANGED <<wrote, output, chalkColors>>
                 ELSE /\ wrote' = IF cliOptions.out THEN "file" ELSE "stdout"
                      /\ chalkColors' = (~cliOptions.out /\ colors)
                      /\ output' = handlerContent(cliOptions, ext.items, cliOptions.out,
                                                  chalkColors')
                      /\ reported' = "Exported"
                      /\ exitStatus' = SUCCESS
                      /\ UNCHANGED writeThrew
    /\ UNCHANGED <<cliOptions, script>>
    /\ UNCHANGED <<limit, onLine, lines, stderr, lineCount, limitReached, proc, killed,
                   emitted, calls, callCtx, closeCode, errMsg, nChunks>>
    /\ UNCHANGED <<errVars, normVars, csvVars, parseVars, trackVars>>

\* the handler after `await extract...()`: the exit on a failed extraction,
\* the content and its write (a throw is caught by main), the exit on success
HandlerResumes(throws, colors) ==
    /\ cliPhase = "awaiting" /\ result.settled
    /\ LET ext == extract(script, result) IN
               /\ extraction' = ext
               /\ cliPhase' = "exited"
               /\ IF ext.exitCode # SUCCESS
                  THEN /\ reported' = getErrorMessage(ext.exitCode)
                       /\ exitStatus' = ext.exitCode
                       /\ UNCHANGED <<wrote, writeThrew, output, chalkColors>>
                  ELSE IF cliOptions.out /\ throws
                  THEN /\ writeThrew' = TRUE
                       /\ reported' = "Unexpected error"
                       /\ exitStatus' = 1
                       /\ UNCHANGED <<wrote, output, chalkColors>>
                  ELSE /\ wrote' = IF cliOptions.out THEN "file" ELSE "stdout"
                       /\ chalkColors' = (~cliOptions.out /\ colors)
                       /\ output' = handlerContent(cliOptions, ext.items, cliOptions.out,
                                                   chalkColors')
                       /\ reported' = "Exported"
                       /\ exitStatus' = SUCCESS
                       /\ UNCHANGED writeThrew
    /\ UNCHANGED <<cliOptions, spawned, script>>
    /\ UNCHANGED <<runnerVars, errVars, normVars, csvVars, parseVars, trackVars>>

\* an event of the child while the handler awaits
ChildEvent ==
    /\ cliPhase = "awaiting"
    /\ \/ \E line \in RawLines : Line(line)
       \/ \E data \in StderrChunks : StderrData(data)
       \/ \E message \in ErrMessages : SpawnError(message)
       \/ \E code \in ExitStatuses \cup {SpawnFailCode} : Close(code)

NextCli ==
    \/ \E checksOk \in BOOLEAN : Main(checksOk)
    \/ ChildEvent
    \/ \E throws \in BOOLEAN, colors \in BOOLEAN : HandlerResumes(throws, colors)
SpecCli == InitCli /\ [][NextCli]_vars

\* C17: a run that extracted and put out its result ends with status 0; a
\* run whose extraction failed ends with the status of the failure kind the
\* runner classified: 2 (MUSIC_UNAVAILABLE), 3 (PERMISSION_DENIED) or
\* 4 (APPLESCRIPT_ERROR).
C17_ExitStatus ==
    (cliPhase = "exited" /\ script # "none") =>
        /\ (result.exitCode = SUCCESS /\ wrote # "none") => exitStatus = 0
        /\ result.exitCode # SUCCESS =>
              /\ exitStatus = result.exitCode
              /\ exitStatus = IF errMsg # <<>> THEN APPLESCRIPT_ERROR
                              ELSE detectErrorType(stderr)
              /\ exitStatus \in {2, 3, 4}
              /\ reported = getErrorMessage(exitStatus)
        /\ (MUSIC_UNAVAILABLE = 2 /\ PERMISSION_DENIED = 3 /\ APPLESCRIPT_ERROR = 4)

\* an albums run whose child ended with status 1 after writing the
\* permission code to stderr: the run ends with status 3
C17_Witness ==
    /\ cliPhase = "exited" /\ cliOptions.type = "albums"
    /\ closeCode = 1 /\ includes(stderr, <<"-","1","7","4","3">>)
    /\ exitStatus = PERMISSION_DENIED

\* C18 as claimed: when the extraction succeeded and the write of the CSV
\* file failed, the run reports the file write error and ends with status 5.
C18_WriteFailureExit5 ==
    (cliPhase = "exited" /\ writeThrew) =>
        /\ exitStatus = FILE_WRITE_ERROR
        /\ reported = getErrorMessage(FILE_WRITE_ERROR)

\* C19: a run starts at most one child: exactly one once a handler has
\* called its extract function, and still exactly one when the run has ended
\* on a failed extraction or on a failed write.
C19_OneSpawn ==
    /\ spawned \in {0, 1}
    /\ (spawned = 1) <=> (script # "none")
    /\ cliPhase = "awaiting" => spawned = 1
    /\ (cliPhase = "exited" /\ (writeThrew \/ result.exitCode # SUCCESS)) => spawned = 1

\* a run ended by a failed write after a successful extraction
C19_Witness ==
    /\ cliPhase = "exited" /\ writeThrew /\ result.exitCode = SUCCESS
    /\ Len(result.lines) = 2 /\ spawned = 1

(***************************************************************************)
(* generateSingleColumnCSV over value lists (specification SpecColumn)     *)
(***************************************************************************)
ColumnHeaders == { <<"a","r","t","i","s","t">>, <<"v","a","l","u","e">>,
                   <<"a","l","b","u","m","_","a","r","t","i","s","t">> }

InitColumn ==
    /\ RunnerIdle /\ ErrIdle /\ NormIdle /\ PipelineIdle
    /\ rows = <<>> /\ csv = <<>> /\ field = Undefined /\ escaped = <<>>
    /\ columnValues = <<>> /\ columnHeader \in ColumnHeaders
    /\ column = <<>> /\ generated = FALSE
    /\ RenderIdle

\* the caller's list grows by one value
Value(v) ==
    /\ ~generated /\ Len(columnValues) < MaxValues
    /\ columnValues' = Append(columnValues, v)
    /\ UNCHANGED <<columnHeader, column, generated, rows, csv, field, escaped, renderVars,
                   runnerVars, errVars, normVars, pipelineVars>>

GenerateSingleColumnCSV ==
    /\ ~generated
    /\ column' = generateSingleColumnCSV(columnValues, columnHeader)
    /\ generated' = TRUE
    /\ UNCHANGED <<columnValues, columnHeader, rows, csv, field, escaped, renderVars,
                   runnerVars, errVars, normVars, pipelineVars>>

NextColumn ==
    \/ \E v \in FieldValues : Value(v)
    \/ GenerateSingleColumnCSV
SpecColumn == InitColumn /\ [][NextColumn]_vars

\* the header line of each header
HeaderLine(header) ==
    CASE header = <<"a","r","t","i","s","t">> -> <<"A","r","t","i","s","t">>
      [] header = <<"v","a","l","u","e">> -> <<"V","a","l","u","e">>
      [] header = <<"a","l","b","u","m","_","a","r","t","i","s","t">> ->
            <<"A","l","b","u","m"," ","A","r","t","i","s","t">>

\* the escaped form of a string: in double quotes, the inner ones doubled,
\* if it holds a comma, a double quote, CR or LF; as it is otherwise
Escaped(str) ==
    IF \E i \in 1..Len(str) : str[i] \in {",", DQUOTE, "\r", "\n"}
    THEN <<DQUOTE>> \o Doubled(str) \o <<DQUOTE>>
    ELSE str

\* every line followed by a line feed
RECURSIVE Terminated(_)
Terminated(ls) ==
    IF ls = <<>> THEN <<>> ELSE Head(ls) \o <<"\n">> \o Terminated(Tail(ls))

\* C20: the content is the header line, then one escaped value per line in
\* input order, every line (the last too) ended by a line feed; with no
\* value it is the header line alone.  Read back, it has one record of one
\* field per value.
C20_SingleColumn ==
    generated =>
        /\ column = Terminated(<<HeaderLine(columnHeader)>>
                        \o [i \in 1..Len(columnValues) |-> Escaped(columnValues[i])])
        /\ columnValues = <<>> => column = HeaderLine(columnHeader) \o <<"\n">>
        /\ ReadCsv(column) = << <<HeaderLine(columnHeader)>> >>
                                 \o [i \in 1..Len(columnValues) |-> <<columnValues[i]>>]

\* two values, the first with a line feed inside and the second empty,
\* under a header of two words
C20_Witness ==
    /\ generated
    /\ columnHeader = <<"a","l","b","u","m","_","a","r","t","i","s","t">>
    /\ columnValues = << <<"a","\n","b">>, <<>> >>
    /\ column = <<"A","l","b","u","m"," ","A","r","t","i","s","t","\n",
                  DQUOTE,"a","\n","b",DQUOTE,"\n","\n">>

(***************************************************************************)
(* The output stage of a handler (specification SpecRender): the rows of   *)
(* one or two columns handed to one of the generators, the file ones when  *)
(* --out was given and the terminal ones otherwise                         *)
(***************************************************************************)
TrackNo == <<"t","r","a","c","k","_","N","o","_">>

HeaderLists == { <<Artist>>, <<Album>>, <<AlbumArtist>>, <<Title, AlbumArtist>>,
                 <<Playlist, TrackNo>> }

RenderValues == { <<>>, <<"a">>, <<"a"," ","-"," ","b">>, <<"a",",","b">> }

Generators == {"generateSingleColumnCSV", "generateSingleColumnData",
               "generateColorizedSingleColumn", "generateMultiColumnCSV",
               "generateMultiColumnData", "generateColorizedMultiColumn"}

InitRender ==
    /\ RunnerIdle /\ ErrIdle /\ NormIdle /\ PipelineIdle
    /\ rows = <<>> /\ csv = <<>> /\ field = Undefined /\ escaped = <<>> /\ ColumnIdle
    /\ renderHeaders \in HeaderLists
    /\ renderRows = <<>> /\ rendered = <<>> /\ renderer = "none"

\* the handler's list grows by one row object
Row(row) ==
    /\ renderer = "none" /\ Len(renderRows) < MaxRenderRows
    /\ renderRows' = Append(renderRows, row)
    /\ UNCHANGED <<renderHeaders, rendered, renderer, rows, csv, field, escaped,
                   columnValues, columnHeader, column, generated,
                   runnerVars, errVars, normVars, pipelineVars>>

\* the values of the first column, what a single-column generator is handed
FirstColumn == [r \in 1..Len(renderRows) |-> renderRows[r][renderHeaders[1]].s]

\* the generator is called; colors tells whether chalk colors its output
Render(generator, colors) ==
    /\ renderer = "none"
    /\ (Len(renderHeaders) = 1) <=>
          (generator \in {"generateSingleColumnCSV", "generateSingleColumnData",
                          "generateColorizedSingleColumn"})
    /\ renderer' = generator
    /\ rendered' =
          CASE generator = "generateSingleColumnCSV" ->
                  generateSingleColumnCSV(FirstColumn, renderHeaders[1])
            [] generator = "generateSingleColumnData" ->
                  generateSingleColumnData(FirstColumn)
            [] generator = "generateColorizedSingleColumn" ->
                  generateColorizedSingleColumn(FirstColumn, renderHeaders[1], colors)
            [] generator = "generateMultiColumnCSV" ->
                  generateMultiColumnCSV(renderRows, renderHeaders)
            [] generator = "generateMultiColumnData" ->
                  generateMultiColumnData(renderRows, renderHeaders)
            [] generator = "generateColorizedMultiColumn" ->
                  generateColorizedMultiColumn(renderRows, renderHeaders, colors)
    /\ UNCHANGED <<renderHeaders, renderRows, rows, csv, field, escaped,
                   columnValues, columnHeader, column, generated,
                   runnerVars, errVars, normVars, pipelineVars>>

NextRender ==
    \/ \E row \in [{renderHeaders[i] : i \in 1..Len(renderHeaders)}
                      -> {Str(v) : v \in RenderValues}] : Row(row)
    \/ \E generator \in Generators, colors \in BOOLEAN : Render(generator, colors)
SpecRender == InitRender /\ [][NextRender]_vars

\* the human-formatted column name, place by place: an underscore is a
\* space, the first letter of the header and every letter after an
\* underscore is a capital, everything else is kept
Formatted(header) ==
    [i \in 1..Len(header) |->
        IF header[i] = "_" THEN " "
        ELSE IF i = 1 \/ header[i - 1] = "_" THEN UpperChar(header[i])
        ELSE header[i]]

\* text without the escape sequences of chalk
Uncolored(text) ==
    SelectSeq(text, LAMBDA c : c \notin {AnsiOpen[k] : k \in DOMAIN AnsiOpen}
                                   \cup {AnsiClose[k] : k \in DOMAIN AnsiClose})

\* the lines of a text that holds no quoted line feed
LinesOf(text) == Pieces(text, { i \in 1..Len(text) : text[i] = "\n" })

QualifiedTracks ==
    {[artist |-> a, albumArtist |-> aa, album |-> al, title |-> al] :
        a \in {<<>>, <<" ">>, <<"x">>}, aa \in {<<>>, <<" ">>, <<"X">>},
        al \in {<<>>, <<" ">>, <<"b">>, <<"B"," ">>}}

InitAlbums ==
    /\ RunnerIdle /\ ErrIdle /\ NormIdle /\ CsvIdle /\ ParseIdle /\ CliIdle
    /\ tracks = <<>> /\ uniqueArtists = <<>> /\ returned = FALSE
    /\ uniqueValues = <<>> /\ normalizerName = "none"
    /\ options \in [fallbackAlbumArtist : {FALSE}, noTrim : BOOLEAN, sort : BOOLEAN]

NormalizeAlbums ==
    /\ ~returned
    /\ uniqueValues' = normalizeAlbums(tracks, options)
    /\ normalizerName' = "normalizeAlbums"
    /\ returned' = TRUE
    /\ UNCHANGED <<tracks, options, uniqueArtists,
                   runnerVars, errVars, normVars, csvVars, parseVars, cliVars>>

NormalizeTracks ==
    /\ ~returned
    /\ uniqueValues' = normalizeTracks(tracks, options)
    /\ normalizerName' = "normalizeTracks"
    /\ returned' = TRUE
    /\ UNCHANGED <<tracks, options, uniqueArtists,
                   runnerVars, errVars, normVars, csvVars, parseVars, cliVars>>

NextAlbums ==
    \/ \E t \in QualifiedTracks : Track(t)
    \/ NormalizeAlbums
    \/ NormalizeTracks
SpecAlbums == InitAlbums /\ [][NextAlbums]_vars

\* the qualifier of a record: the preferred artist field, the other one when the
\* preferred one is empty, trimmed
Qualifier(preferred, other) == trim(IF preferred # <<>> THEN preferred ELSE other)

\* what one record contributes: nothing without a value, else the value, behind
\* its qualifier and " - " when the qualifier is present
Entry(qualifier, value) ==
    IF trim(value) = <<>> THEN <<>>
    ELSE IF qualifier # <<>> THEN << qualifier \o Dash \o trim(value) >>
    ELSE << trim(value) >>

RECURSIVE Entries(_, _)
Entries(ts, name) ==
    IF ts = <<>> THEN <<>>
    ELSE LET t == Head(ts)
         IN (IF name = "normalizeAlbums"
             THEN Entry(Qualifier(t.albumArtist, t.artist), t.album)
             ELSE Entry(Qualifier(t.artist, t.albumArtist), t.title))
            \o Entries(Tail(ts), name)

\* C22: normalizeAlbums and normalizeTracks return, for the records with a value,
\* "<qualifier> - <value>" when the record has a qualifier and the bare value when
\* it has none (album artist before track artist for albums, track artist before
\* album artist for titles), entries equal ignoring case collapsed to the first seen
C22_Qualified ==
    (returned /\ normalizerName # "none") =>
        uniqueValues = normalizeArtists(Entries(tracks, normalizerName), FALSE, options.sort)

\* the same, over the tracks whose value is either empty or not blank
NoBlankValue ==
    \A i \in 1..Len(tracks) :
        /\ (tracks[i].album = <<>> \/ trim(tracks[i].album) # <<>>)
        /\ (tracks[i].title = <<>> \/ trim(tracks[i].title) # <<>>)
C22_QualifiedNonBlank ==
    (returned /\ normalizerName # "none" /\ NoBlankValue) =>
        uniqueValues = normalizeArtists(Entries(tracks, normalizerName), FALSE, options.sort)

\* the field of a track the called normalizer takes its value from
ValueOf(track, name) == IF name = "normalizeAlbums" THEN track.album ELSE track.title

\* text ends with value, letter case aside
EndsWith(text, value) ==
    /\ Len(text) >= Len(value)
    /\ toLowerCase(SubSeq(text, Len(text) - Len(value) + 1, Len(text))) = toLowerCase(value)

\* C23: with noTrim every value of the output keeps the leading and trailing
\* whitespace it had in the extracted data: each non-blank album (title) handed to
\* normalizeAlbums (normalizeTracks) ends an entry of the result as it was extracted
C23_NoTrimKeepsWhitespace ==
    (returned /\ normalizerName # "none" /\ options.noTrim) =>
        \A i \in 1..Len(tracks) :
            trim(ValueOf(tracks[i], normalizerName)) # <<>> =>
                \E j \in 1..Len(uniqueValues) :
                    EndsWith(uniqueValues[j], ValueOf(tracks[i], normalizerName))

\* C30: normalizeAlbums returns no entry for a track whose album is blank after
\* trimming: every entry is a non-blank album of some track, bare or behind an
\* artist of that track and " - "
C30_NoBlankAlbumEntry ==
    (returned /\ normalizerName = "normalizeAlbums") =>
        \A j \in 1..Len(uniqueValues) :
            \E i \in 1..Len(tracks) :
                LET album == trim(tracks[i].album) IN
                /\ album # <<>>
                /\ \/ uniqueValues[j] = album
                   \/ \E artist \in {trim(tracks[i].albumArtist), trim(tracks[i].artist)} :
                          artist # <<>> /\ uniqueValues[j] = artist \o Dash \o album

(***************************************************************************)
(* The order of the child's events in one run (specification Spec)         *)
(***************************************************************************)

\* C25: a Failure decided from the close event is decided in the step of that
\* event, over the diagnostic buffer as it then is, and the buffer is complete:
\* no stderr chunk is appended once that decision has been taken
C25_StderrDrained ==
    [][ /\ (~result.settled /\ result'.settled /\ result'.hasError /\ errMsg' = <<>>) =>
              /\ proc = "running" /\ proc' = "closed"
              /\ stderr' = stderr
              /\ result'.exitCode = detectErrorType(stderr)
              /\ result'.error = trim(stderr)
        /\ (result.settled /\ result.hasError /\ errMsg = <<>>) =>
              (stderr' = stderr /\ nChunks' = nChunks /\ result' = result) ]_vars

\* a permission failure decided at the close, after two chunks and a line
C25_Witness ==
    /\ proc = "closed" /\ result.settled /\ result.hasError /\ errMsg = <<>>
    /\ nChunks = 2 /\ Len(result.lines) >= 1
    /\ result.exitCode = PERMISSION_DENIED
    /\ result.error = <<"x","-","1","7","4","3">>

\* C26: the run is resolved exactly when the child has closed or failed to
\* start: it stays unresolved as long as the child runs, also after the limit
\* was reached and the kill requested, and it is resolved once the close or
\* the error event has fired
C26_ResolvesOnCloseOrError ==
    /\ result.settled <=> proc \in {"closed", "failed"}
    /\ proc = "running" => result = Pending
    /\ (limitReached /\ killed /\ proc = "running") => ~result.settled

\* the limit was reached and the kill requested, one more line arrived, and the
\* child has not closed yet
C26_Witness ==
    /\ limitReached /\ killed /\ proc = "running" /\ ~result.settled
    /\ Len(emitted) > Len(lines) /\ Len(lines) = limit

\* C29: in every interleaving of the events of a run the result is settled at
\* most once: once settled, no later event, the close after a spawn error
\* included, changes its status, kind, detail or lines
C29_SettledOnce ==
    [][result.settled => result' = result]_vars

\* the close event has followed a spawn error and the result is still the one
\* the error event gave
C29_Witness ==
    /\ proc = "closed" /\ closeCode = SpawnFailCode /\ errMsg = <<"E","A","C","C","E","S">>
    /\ result = Failure(<<>>, APPLESCRIPT_ERROR, errMsg)

(***************************************************************************)
(* The handler's view of the extraction (specification SpecCli)            *)
(***************************************************************************)

\* C24: for every query kind, when the run ended in a failure after lines were
\* captured, the object the extract function returned to the handler still
\* carries them: one item for each captured line
C24_FailureKeepsLines ==
    (cliPhase = "exited" /\ script # "none" /\ extraction.exitCode # SUCCESS) =>
        Len(extraction.items) = Len(result.lines)

\* the same for the two extract functions that hand the lines on as they are
C24_FailureKeepsLinesOfLists ==
    (cliPhase = "exited" /\ script \in {"extractArtists", "extractPlaylists"}
        /\ extraction.exitCode # SUCCESS) =>
        extraction.items = result.lines

\* C27: content is produced and written only by a run whose extraction returned
\* Success, and only once it has returned; a run whose extraction failed ends
\* with a status other than 0 and with nothing written to the file or to stdout
C27_OutputAfterSuccess ==
    /\ (wrote # "none" \/ output # <<>>) =>
          /\ cliPhase = "exited" /\ result.settled
          /\ result.exitCode = SUCCESS /\ extraction.exitCode = SUCCESS
    /\ (cliPhase = "exited" /\ script # "none" /\ result.exitCode # SUCCESS) =>
          /\ wrote = "none" /\ output = <<>>
          /\ exitStatus = result.exitCode /\ exitStatus # SUCCESS

\* a detailed run to stdout that failed after two lines were captured
C27_Witness ==
    /\ cliPhase = "exited" /\ cliOptions.type = "detailed" /\ ~cliOptions.out
    /\ result.hasError /\ Len(result.lines) = 2
    /\ wrote = "none" /\ output = <<>>

\* the captured lines without the empty ones
WithoutEmpty(ls) == SelectSeq(ls, LAMBDA l : l # <<>>)

\* the content the run would have written had the child not printed the empty lines
ContentWithoutEmpty ==
    handlerContent(cliOptions, extract(script, Success(WithoutEmpty(result.lines))).items,
                   cliOptions.out, chalkColors)

\* C28: an empty raw line is discarded: for every query kind the content written
\* is the content the same run writes without its empty lines, so no row of the
\* detailed and playlist-tracks outputs comes from an empty line
C28_EmptyLinesDiscarded ==
    wrote # "none" => output = ContentWithoutEmpty

\* the same for the four types whose values pass through a normalizer
C28_EmptyLinesDiscardedByAdd ==
    (wrote # "none" /\ cliOptions.type \in {"artists", "albums", "tracks", "playlists"}) =>
        output = ContentWithoutEmpty

====
